---------------------------- MODULE Spec2Model ----------------------------
(***************************************************************************)
(* Purchase-request tracker (controle-compras): the REST route, the        *)
(* SolicitacaoController handlers and the SolicitacaoModel repository over *)
(* the table "solicitacoes".                                               *)
(*                                                                         *)
(* A JavaScript string is a finite sequence of characters.  A word that    *)
(* holds no white space and no angle bracket (a status literal such as     *)
(* "Pendente") is written as one element of the sequence.  A request body  *)
(* is a function from the keys it carries to strings: a key outside its    *)
(* DOMAIN reads as undefined.  Accents are dropped from the message texts. *)
(***************************************************************************)
EXTENDS Integers, Sequences, FiniteSets, TLC

-----------------------------------------------------------------------------
(* Bounds of the model *)

MaxClock == 2       \* readings of the clock in SpecTime
MaxStats == 8       \* rows stored in SpecStats and SpecOrder
MaxRows == 25       \* rows stored in SpecList
MaxId == 2          \* ids the SERIAL column hands out in Spec; rows stored in
                    \* SpecSchema and SpecCount
MaxSeqId == 1       \* ids handed out in SpecSeq and SpecRepo
NReq == 2           \* request slots served concurrently in Spec
MaxInflight == 5    \* HTTP requests in flight in SpecShutdown
MaxCalls == 3       \* loadSolicitacoes calls in flight in SpecClient

-----------------------------------------------------------------------------
(* Strings *)

WhiteSpace == {" "}
AngleBrackets == {"<", ">"}

\* String.prototype.trim
RECURSIVE TrimLeft(_)
TrimLeft(s) ==
    IF s # <<>> /\ Head(s) \in WhiteSpace THEN TrimLeft(Tail(s)) ELSE s

RECURSIVE TrimRight(_)
TrimRight(s) ==
    IF s # <<>> /\ s[Len(s)] \in WhiteSpace
    THEN TrimRight(SubSeq(s, 1, Len(s) - 1))
    ELSE s

Trim(s) == TrimRight(TrimLeft(s))

\* String.prototype.toUpperCase on the characters of the model
LowerCase ==
    <<"a", "b", "c", "d", "e", "f", "g", "h", "i", "j", "k", "l", "m",
      "n", "o", "p", "q", "r", "s", "t", "u", "v", "w", "x", "y", "z">>
UpperCase ==
    <<"A", "B", "C", "D", "E", "F", "G", "H", "I", "J", "K", "L", "M",
      "N", "O", "P", "Q", "R", "S", "T", "U", "V", "W", "X", "Y", "Z">>

UpperChar(c) ==
    IF \E i \in 1..Len(LowerCase) : LowerCase[i] = c
    THEN UpperCase[CHOOSE i \in 1..Len(LowerCase) : LowerCase[i] = c]
    ELSE c

ToUpperCase(s) == [i \in 1..Len(s) |-> UpperChar(s[i])]

IsAngle(c) == c \in AngleBrackets
NotAngle(c) == ~IsAngle(c)

\* mutant: the string is trimmed and its angle brackets are kept
sanitizeString_KeepAngle(s) == Trim(s)

\* helpers.js sanitizeInput on a string: trim, then drop every < and >
sanitizeString(s) == SelectSeq(Trim(s), NotAngle)

\* helpers.js sanitizeInput on an object: every value sanitized, keys kept
sanitizeInput(b) == [k \in DOMAIN b |-> sanitizeString(b[k])]

\* mutant: the string is trimmed but not upper-cased
normalizeString_NoUpper(s) == Trim(s)

\* helpers.js normalizeString
normalizeString(s) == ToUpperCase(Trim(s))

\* middleware sanitizeInput (router.use): every string of the body trimmed
routerSanitize(b) == [k \in DOMAIN b |-> Trim(b[k])]

-----------------------------------------------------------------------------
(* Fields and status values *)

required == <<"nome_pessoa", "setor", "centro_custo", "equipamento">>
TextFields == {required[i] : i \in 1..Len(required)}
allowedFields == <<"nome_pessoa", "setor", "centro_custo", "equipamento", "status">>
Keys == {allowedFields[i] : i \in 1..Len(allowedFields)}

Pendente == <<"Pendente">>
EmAndamento == <<"Em", " ", "Andamento">>
Comprado == <<"Comprado">>
Cancelado == <<"Cancelado">>

\* mutant: one of the four values is missing from the handler's list
STATUS_OPTIONS_Three == {Pendente, Comprado, Cancelado}

\* helpers.js STATUS_OPTIONS (its keys), SolicitacaoModel statusValidos
STATUS_OPTIONS == {Pendente, EmAndamento, Comprado, Cancelado}
statusValidos == {Pendente, EmAndamento, Comprado, Cancelado}

\* JavaScript truthiness of data[k] for a string-valued or absent key
Has(d, k) == k \in DOMAIN d
Truthy(d, k) == Has(d, k) /\ d[k] # <<>>

\* maximum lengths of validateData and of the route validators
MaxNome == 255
MaxSetor == 100
MaxCentro == 50

MaxLenOf(f) ==
    CASE f = "nome_pessoa" -> MaxNome
      [] f = "setor" -> MaxSetor
      [] f = "centro_custo" -> MaxCentro
      [] OTHER -> -1

Opt(c, m) == IF c THEN <<m>> ELSE <<>>


-----------------------------------------------------------------------------
(* Path parameter :id -- isNaN and parseInt on a string of the characters   *)
(* 0-9 . - + space and letters (no exponent, hex or Infinity literal)       *)

Digits == {"0", "1", "2", "3", "4", "5", "6", "7", "8", "9"}

DigitVal(c) ==
    CASE c = "0" -> 0 [] c = "1" -> 1 [] c = "2" -> 2 [] c = "3" -> 3
      [] c = "4" -> 4 [] c = "5" -> 5 [] c = "6" -> 6 [] c = "7" -> 7
      [] c = "8" -> 8 [] c = "9" -> 9 [] OTHER -> 0

AllDigits(s) == \A i \in 1..Len(s) : s[i] \in Digits

Unsigned(s) == IF s # <<>> /\ Head(s) \in {"-", "+"} THEN Tail(s) ELSE s

\* StrDecimalLiteral without sign: digits, digits.digits, digits. or .digits
IsUnsignedDecimal(u) ==
    LET dots == {i \in 1..Len(u) : u[i] = "."}
    IN  IF dots = {}
        THEN u # <<>> /\ AllDigits(u)
        ELSE /\ Cardinality(dots) = 1
             /\ LET i == CHOOSE j \in dots : TRUE
                    l == SubSeq(u, 1, i - 1)
                    r == SubSeq(u, i + 1, Len(u))
                IN  AllDigits(l) /\ AllDigits(r) /\ (l # <<>> \/ r # <<>>)

\* isNaN(id): Number(id) is NaN; the empty and the blank string convert to 0
isNaN(s) == Trim(s) # <<>> /\ ~IsUnsignedDecimal(Unsigned(Trim(s)))

RECURSIVE DigitPrefix(_)
DigitPrefix(s) ==
    IF s # <<>> /\ Head(s) \in Digits THEN <<Head(s)>> \o DigitPrefix(Tail(s)) ELSE <<>>

RECURSIVE DigitsValue(_)
DigitsValue(s) ==
    IF s = <<>> THEN 0 ELSE 10 * DigitsValue(SubSeq(s, 1, Len(s) - 1)) + DigitVal(s[Len(s)])

\* parseInt(id): NaN when no digit follows the optional sign
parseIntIsNaN(s) == DigitPrefix(Unsigned(TrimLeft(s))) = <<>>

parseInt(s) ==
    LET t == TrimLeft(s)
        v == DigitsValue(DigitPrefix(Unsigned(t)))
    IN  IF t # <<>> /\ Head(t) = "-" THEN 0 - v ELSE v

\* the handlers' guard  if (!id || isNaN(id))
BadId(s) == s = <<>> \/ isNaN(s)

-----------------------------------------------------------------------------
(* Route validators (express-validator chains) and handleValidationErrors   *)

RouteCreateMsg(f) ==
    CASE f = "nome_pessoa" -> "Nome da pessoa e obrigatorio e deve ter no maximo 255 caracteres"
      [] f = "setor" -> "Setor e obrigatorio e deve ter no maximo 100 caracteres"
      [] f = "centro_custo" -> "Centro de custo e obrigatorio e deve ter no maximo 50 caracteres"
      [] OTHER -> "Equipamento e obrigatorio"

RouteUpdateMsg(f) ==
    CASE f = "nome_pessoa" -> "Nome da pessoa deve ter no maximo 255 caracteres"
      [] f = "setor" -> "Setor deve ter no maximo 100 caracteres"
      [] f = "centro_custo" -> "Centro de custo deve ter no maximo 50 caracteres"
      [] OTHER -> "Equipamento nao pode estar vazio"

\* toString of the field's value: the empty string for an absent key
ValueOf(b, f) == IF Has(b, f) THEN b[f] ELSE <<>>

\* .trim().isLength({ min: 1, max })
isLength(b, f) ==
    LET n == Len(Trim(ValueOf(b, f)))
    IN  n >= 1 /\ (MaxLenOf(f) < 0 \/ n <= MaxLenOf(f))

\* .isIn([...]) of the status chains
isInValues == {Pendente, EmAndamento, Comprado, Cancelado}
statusIsIn(b) == ValueOf(b, "status") \in isInValues

\* mutant: the validation stops at the first field that fails
validatorsCreate_First(b) ==
    IF ~isLength(b, "nome_pessoa") THEN <<RouteCreateMsg("nome_pessoa")>>
    ELSE IF ~isLength(b, "setor") THEN <<RouteCreateMsg("setor")>>
    ELSE IF ~isLength(b, "centro_custo") THEN <<RouteCreateMsg("centro_custo")>>
    ELSE IF ~isLength(b, "equipamento") THEN <<RouteCreateMsg("equipamento")>>
    ELSE Opt(Has(b, "status") /\ ~statusIsIn(b), "Status invalido")

\* solicitacaoValidators.create: one chain per field, in this order
validatorsCreate(b) ==
    Opt(~isLength(b, "nome_pessoa"), RouteCreateMsg("nome_pessoa"))
    \o Opt(~isLength(b, "setor"), RouteCreateMsg("setor"))
    \o Opt(~isLength(b, "centro_custo"), RouteCreateMsg("centro_custo"))
    \o Opt(~isLength(b, "equipamento"), RouteCreateMsg("equipamento"))
    \o Opt(Has(b, "status") /\ ~statusIsIn(b), "Status invalido")

\* mutant: the update chain of status is missing
validatorsUpdate_NoStatus(b) ==
    Opt(Has(b, "nome_pessoa") /\ ~isLength(b, "nome_pessoa"), RouteUpdateMsg("nome_pessoa"))
    \o Opt(Has(b, "setor") /\ ~isLength(b, "setor"), RouteUpdateMsg("setor"))
    \o Opt(Has(b, "centro_custo") /\ ~isLength(b, "centro_custo"), RouteUpdateMsg("centro_custo"))
    \o Opt(Has(b, "equipamento") /\ ~isLength(b, "equipamento"), RouteUpdateMsg("equipamento"))

\* solicitacaoValidators.update: every chain optional()
validatorsUpdate(b) ==
    Opt(Has(b, "nome_pessoa") /\ ~isLength(b, "nome_pessoa"), RouteUpdateMsg("nome_pessoa"))
    \o Opt(Has(b, "setor") /\ ~isLength(b, "setor"), RouteUpdateMsg("setor"))
    \o Opt(Has(b, "centro_custo") /\ ~isLength(b, "centro_custo"), RouteUpdateMsg("centro_custo"))
    \o Opt(Has(b, "equipamento") /\ ~isLength(b, "equipamento"), RouteUpdateMsg("equipamento"))
    \o Opt(Has(b, "status") /\ ~statusIsIn(b), "Status invalido")

\* solicitacaoValidators.updateStatus: status is not optional
validatorsUpdateStatus(b) ==
    Opt(~statusIsIn(b), "Status e obrigatorio e deve ser valido")

\* the .trim() sanitizers write the trimmed value back into req.body; a
\* chain that is not optional() does so for an absent key as well
validatorsCreateBody(b) ==
    [k \in DOMAIN b \cup TextFields |->
        IF k \in TextFields THEN Trim(ValueOf(b, k)) ELSE b[k]]

validatorsUpdateBody(b) ==
    [k \in DOMAIN b |-> IF k \in TextFields THEN Trim(b[k]) ELSE b[k]]

-----------------------------------------------------------------------------
(* SolicitacaoModel.validateData *)

ModelCreateMsg(f) ==
    CASE f = "nome_pessoa" -> "O campo 'nome_pessoa' e obrigatorio"
      [] f = "setor" -> "O campo 'setor' e obrigatorio"
      [] f = "centro_custo" -> "O campo 'centro_custo' e obrigatorio"
      [] OTHER -> "O campo 'equipamento' e obrigatorio"

ModelUpdateMsg(f) ==
    CASE f = "nome_pessoa" -> "Nome da pessoa nao pode estar vazio"
      [] f = "setor" -> "Setor nao pode estar vazio"
      [] f = "centro_custo" -> "Centro de custo nao pode estar vazio"
      [] OTHER -> "Equipamento nao pode estar vazio"

\* mutant: only an absent key counts, the empty string passes
Blank_OnlyUndefined(d, f) == ~Has(d, f)

\* !data[field] || data[field].trim() === ''
Blank(d, f) == ~Truthy(d, f) \/ Trim(d[f]) = <<>>

RECURSIVE RequiredErrors(_, _)
RequiredErrors(d, i) ==
    IF i > Len(required) THEN <<>>
    ELSE Opt(Blank(d, required[i]), ModelCreateMsg(required[i])) \o RequiredErrors(d, i + 1)

RECURSIVE UpdateErrors(_, _)
UpdateErrors(d, i) ==
    IF i > Len(required) THEN <<>>
    ELSE Opt(Has(d, required[i]) /\ Blank(d, required[i]), ModelUpdateMsg(required[i]))
         \o UpdateErrors(d, i + 1)

TooLong(d, f) == Truthy(d, f) /\ Len(d[f]) > MaxLenOf(f)

validateData(d, isUpdate) ==
    (IF ~isUpdate THEN RequiredErrors(d, 1) ELSE UpdateErrors(d, 1))
    \o Opt(Truthy(d, "status") /\ d["status"] \notin statusValidos, "Status invalido")
    \o Opt(TooLong(d, "nome_pessoa"), "Nome da pessoa deve ter no maximo 255 caracteres")
    \o Opt(TooLong(d, "setor"), "Setor deve ter no maximo 100 caracteres")
    \o Opt(TooLong(d, "centro_custo"), "Centro de custo deve ter no maximo 50 caracteres")

\* the handlers' normalisation:  if (data.f) data.f = normalizeString(data.f)
normalizeFields(d) ==
    [k \in DOMAIN d |->
        IF k \in TextFields /\ d[k] # <<>> THEN normalizeString(d[k]) ELSE d[k]]

-----------------------------------------------------------------------------
(* State *)

VARIABLES
    store,      \* table solicitacoes: id -> row, for the ids that have a row
    nextId,     \* next value of the SERIAL sequence of column id
    req,        \* request slot -> the request it serves and how far it got
    deleted,    \* ids removed by a DELETE statement so far (history)
    now,        \* the clock CURRENT_TIMESTAMP and new Date() read
    session,    \* express-session store: session id -> its csrfToken
    schema,     \* the relation solicitacoes and its indexes, as far as they exist
    pool,       \* the pg Pool: connections checked out, and whether end() was called
    call,       \* a call of transaction or testConnection and how far it got
    proc,       \* the Node process: HTTP server, signal handlers, exit code
    client      \* the browser script: its globals, the table shown, fetches in flight

\* what the request handlers never touch
rest == <<pool, call, proc, client>>

vars == <<store, nextId, req, deleted, now, session, schema, rest>>

\* a thrown  new Error(message): no code, no statusCode
Error(parts) == [message |-> parts, code |-> "", statusCode |-> 0]

\* middleware errorHandler: the HTTP status it answers for a thrown error
errorHandler(error) ==
    IF error.code = "23505" THEN 409
    ELSE IF error.code \in {"ECONNREFUSED", "ENOTFOUND"} THEN 503
    ELSE IF error.statusCode # 0 THEN error.statusCode
    ELSE 500

\* createErrorResponse / createSuccessResponse, with the HTTP status
\* data holds the id of a created row, or the row a GET returns
NoRes == [code |-> 0, error |-> <<>>, errors |-> <<>>, data |-> <<>>]
ErrorResponse(code, parts, errs) ==
    [code |-> code, error |-> parts, errors |-> errs, data |-> <<>>]
SuccessResponse(code, data) ==
    [code |-> code, error |-> <<>>, errors |-> <<>>, data |-> data]
Thrown(error) == ErrorResponse(errorHandler(error), error.message, <<>>)

NoBody == [k \in {} |-> <<>>]

\* no session has been started
NoSession == [k \in {} |-> <<>>]

\* sid: the session of the caller; token: csrf_token of the body as sent;
\* header: X-CSRF-Token; bound: the csrfToken of the session at the check
NoCsrf == [sid |-> "", token |-> <<>>, header |-> <<>>, bound |-> <<>>]

Idle ==
    [pc |-> "idle", op |-> "none", id |-> <<>>, body |-> NoBody, data |-> NoBody,
     found |-> FALSE, rows |-> -1, late |-> FALSE, via |-> "none", res |-> NoRes,
     stamp |-> 0, query |-> NoBody, filters |-> NoBody, page |-> 0, limit |-> 0,
     offset |-> 0, items |-> <<>>, total |-> -1, csrf |-> NoCsrf, fault |-> "",
     order |-> <<>>, was |-> <<>>]
    \* via: "route" when the route's validators answered, "handler" when the
    \* request reached its handler, "model" for a direct call of the model
    \* stamp: the new Date() SolicitacaoModel.update put in its statement
    \* query: req.query of a listing; filters, page, limit, offset: what the
    \* handler made of it; items, total: what getAll and count returned
    \* csrf: what csrfProtection saw of a mutating request
    \* fault: the code of the error a store round trip of the request failed with
    \* order: the text a listing puts after ORDER BY
    \* was: the schema a createTable call met at its first statement

Slots == DOMAIN req

\* the three indexes createTable and the SQL script create
Indexes == {"idx_solicitacoes_status", "idx_solicitacoes_setor", "idx_solicitacoes_data"}

\* the schema after the SQL script or createTable ran
Complete == [table |-> TRUE, indexes |-> Indexes]

\* new Pool({max: 20, ...}): no connection checked out, end() not called
PoolMax == 20
NewPool == [out |-> 0, ending |-> FALSE]

\* a caller of transaction or testConnection that has not called yet
\* log: the statements sent on the connection, in order; holds: connections
\* the call has checked out and not released; releases: calls of
\* client.release(); caught: the await whose failure entered the catch block;
\* result: "resolved", "rejected", "true" or "false"; error: the await whose
\* error the returned promise rejects with
NoCall ==
    [op |-> "none", pc |-> "idle", log |-> <<>>, holds |-> 0, releases |-> 0,
     caught |-> "", result |-> "", error |-> ""]
Callers == {"a", "b"}

\* the process after startServer: listening, both modules' signal handlers
\* registered, no request in flight
\* signal: SIGTERM or SIGINT once received; closing: server.close was called;
\* closed: its callback ran; timer: the forced-shutdown timer is armed;
\* ending: the database handler awaits pool.end(); inflight: HTTP requests
\* received and not answered; exit: the code of process.exit, -1 while running;
\* by: the callback that called process.exit; cut: requests in flight at exit
Started ==
    [signal |-> "", closing |-> FALSE, closed |-> FALSE, timer |-> FALSE,
     ending |-> FALSE, inflight |-> 0, exit |-> -1, by |-> "", cut |-> 0]

\* the page after the script was loaded, before DOMContentLoaded
\* shown: what the table area shows, calls: loadSolicitacoes calls issued
PageLoaded ==
    [currentPage |-> 1, currentFilters |-> NoBody,
     shown |-> [view |-> "none", page |-> 0, filters |-> NoBody], calls |-> <<>>]

\* the parts of the state a specification leaves alone
Untouched ==
    /\ pool = NewPool
    /\ call = [c \in Callers |-> NoCall]
    /\ proc = Started
    /\ client = PageLoaded
Elsewhere == schema = Complete /\ Untouched

\* the request was issued after a DELETE statement had removed its id
IsLate(i) == ~parseIntIsNaN(i) /\ parseInt(i) \in deleted

Begin(o, i, b) ==
    [Idle EXCEPT !.op = o, !.id = i, !.body = b, !.late = IsLate(i), !.via = "handler"]

\* the slot answers: res.status(code).json(...)
Answer(r, res) == [r EXCEPT !.pc = "done", !.res = res]

\* handleValidationErrors answers before the handler is entered
Reject(r, errs) ==
    [r EXCEPT !.pc = "done", !.via = "route",
              !.res = ErrorResponse(400, <<"Dados invalidos">>, errs)]

\* the slot awaits the round trip named pc
Await(r, pc) == [r EXCEPT !.pc = pc]

BadIdResponse ==
    ErrorResponse(400, <<"ID da solicitacao e obrigatorio e deve ser um numero">>, <<>>)
NotFoundResponse == ErrorResponse(404, <<"Solicitacao nao encontrada">>, <<>>)
InvalidResponse(errs) == ErrorResponse(400, <<"Dados invalidos">>, errs)

\* SolicitacaoModel.getById with parseInt(id) = NaN: the store rejects the
\* parameter, the model rethrows a plain Error
getByIdError == Error(<<"Erro ao buscar solicitacao no banco de dados">>)

-----------------------------------------------------------------------------
(* SolicitacaoModel.create *)

\* the required-field loop throws at the first blank field it meets
RECURSIVE FirstBlank(_, _)
FirstBlank(d, i) ==
    IF i > Len(required) THEN <<>>
    ELSE IF Blank(d, required[i]) THEN <<required[i]>>
    ELSE FirstBlank(d, i + 1)

createError(d) ==
    Error(<<"Erro ao salvar solicitacao: ", "Campo obrigatorio nao informado: ">>
          \o FirstBlank(d, 1))

\* the values of the INSERT statement
createValues(d) ==
    [nome_pessoa |-> Trim(d["nome_pessoa"]),
     setor |-> Trim(d["setor"]),
     centro_custo |-> Trim(d["centro_custo"]),
     equipamento |-> Trim(d["equipamento"]),
     status |-> IF Truthy(d, "status") THEN d["status"] ELSE Pendente]

\* mutant: the id is the lowest one no row holds, so a deleted id comes back
NewId_LowestFree == CHOOSE n \in 1..nextId : n \notin DOMAIN store /\ \A m \in 1..(n - 1) : m \in DOMAIN store

\* id SERIAL PRIMARY KEY: the sequence never hands a value out twice
NewId == nextId

\* columns filled by DEFAULT CURRENT_TIMESTAMP
Defaulted == {"data_solicitacao", "created_at", "updated_at"}

\* the row an INSERT of the given values leaves in the table
InsertedRow(values) ==
    [k \in DOMAIN values \cup Defaulted |-> IF k \in Defaulted THEN now ELSE values[k]]

\* INSERT ... RETURNING id
Insert(row) ==
    /\ store' = [i \in DOMAIN store \cup {NewId} |->
                    IF i = NewId THEN InsertedRow(row) ELSE store[i]]
    /\ nextId' = nextId + 1

\* creates in flight and rows handed out stay within cap ids
CanCreate(cap) ==
    nextId + Cardinality({q \in Slots : req[q].pc = "insert"}) <= cap

\* POST /solicitacoes up to the INSERT: router sanitizeInput, the create
\* validators, handleValidationErrors, then SolicitacaoController.create
create_Start(b) ==
    LET body == routerSanitize(b)
        r == Begin("create", <<>>, validatorsCreateBody(body))
        data == normalizeFields(sanitizeInput(r.body))
        errors == validateData(data, FALSE)
    IN  IF validatorsCreate(body) # <<>>
        THEN Reject(r, validatorsCreate(body))
        ELSE IF errors # <<>>
        THEN Answer(r, InvalidResponse(errors))
        ELSE IF FirstBlank(data, 1) # <<>>
        THEN Answer([r EXCEPT !.data = data], Thrown(createError(data)))
        ELSE Await([r EXCEPT !.data = data], "insert")

\* a POST /solicitacoes that has passed the gates of the route
create_Request(p, cap, B) ==
    /\ req[p].pc = "idle"
    /\ CanCreate(cap)
    /\ \E b \in B : req' = [req EXCEPT ![p] = create_Start(b)]
    /\ UNCHANGED <<store, nextId, deleted, now, session, schema, rest>>

\* the INSERT round trip of SolicitacaoModel.create and the 201 answer
Model_create(p) ==
    /\ req[p].pc = "insert"
    /\ Insert(createValues(req[p].data))
    /\ req' = [req EXCEPT ![p] =
            Answer([@ EXCEPT !.rows = 1], SuccessResponse(201, <<NewId>>))]
    /\ UNCHANGED <<deleted, now, session, schema, rest>>

-----------------------------------------------------------------------------
(* SolicitacaoModel.update, updateStatus and delete *)

\* the allowed fields the data carries (data[field] !== undefined)
updateFields(d) == SelectSeq(allowedFields, LAMBDA f : Has(d, f))

updateNoFieldsError ==
    Error(<<"Erro ao atualizar solicitacao: ", "Nenhum campo para atualizar foi fornecido">>)
updateNoRowError ==
    Error(<<"Erro ao atualizar solicitacao: ",
            "Solicitacao nao encontrada ou nenhuma alteracao foi feita">>)
deleteError == Error(<<"Erro ao excluir solicitacao do banco de dados">>)

\* mutant: all five fields are written, the ones not supplied as empty
updateRow_EveryField(row, d, stamp) ==
    [k \in DOMAIN row |->
        IF k \in Keys THEN ValueOf(d, k)
        ELSE IF k = "updated_at" THEN stamp
        ELSE row[k]]

\* UPDATE solicitacoes SET <the supplied allowed fields>, updated_at = <stamp>
\* WHERE id = n
updateRow(row, d, stamp) ==
    [k \in DOMAIN row |->
        IF k \in Keys /\ Has(d, k) THEN d[k]
        ELSE IF k = "updated_at" THEN stamp
        ELSE row[k]]

\* mutant: a statement that matched no row is taken for a success
Affected_ZeroRows(rowCount) == rowCount >= 0

\* result.rowCount > 0
Affected(rowCount) == rowCount > 0

\* the UPDATE round trip of SolicitacaoModel.update and the handler's answer
\* (PUT and PATCH alike): zero rows is thrown as a plain Error
Model_update(p) ==
    /\ req[p].pc = "update"
    /\ LET n == parseInt(req[p].id)
           rowCount == IF n \in DOMAIN store THEN 1 ELSE 0
       IN  /\ store' = [i \in DOMAIN store |->
                            IF i = n THEN updateRow(store[i], req[p].data, req[p].stamp) ELSE store[i]]
           /\ req' = [req EXCEPT ![p] =
                  Answer([@ EXCEPT !.rows = rowCount],
                         IF Affected(rowCount)
                         THEN SuccessResponse(200, <<>>)
                         ELSE Thrown(updateNoRowError))]
    /\ UNCHANGED <<nextId, deleted, now, session, schema, rest>>

\* the DELETE round trip of SolicitacaoModel.delete and the handler's answer
Model_delete(p) ==
    /\ req[p].pc = "delete"
    /\ LET n == parseInt(req[p].id)
           rowCount == IF n \in DOMAIN store THEN 1 ELSE 0
       IN  /\ store' = [i \in DOMAIN store \ {n} |-> store[i]]
           /\ deleted' = IF rowCount > 0 THEN deleted \cup {n} ELSE deleted
           /\ req' = [req EXCEPT ![p] =
                  Answer([@ EXCEPT !.rows = rowCount],
                         IF Affected(rowCount)
                         THEN SuccessResponse(200, <<>>)
                         ELSE Thrown(deleteError))]
    /\ UNCHANGED <<nextId, now, session, schema, rest>>

-----------------------------------------------------------------------------
(* SolicitacaoController: update, updateStatus, delete, getById *)

\* the start every handler with an :id shares: the id guard, then the
\* getById round trip is issued with parseInt(id)
EnterHandler(r) ==
    IF BadId(r.id) THEN Answer(r, BadIdResponse)
    ELSE IF parseIntIsNaN(r.id) THEN Answer(r, Thrown(getByIdError))
    ELSE Await(r, "getById")

\* PUT /solicitacoes/:id up to the existence check
update_Start(i, b) ==
    LET body == routerSanitize(b)
        r == Begin("update", i, validatorsUpdateBody(body))
    IN  IF validatorsUpdate(body) # <<>>
        THEN Reject(r, validatorsUpdate(body))
        ELSE EnterHandler(r)

\* a PUT /solicitacoes/:id that has passed the gates of the route
update_Request(p, I, B) ==
    /\ req[p].pc = "idle"
    /\ \E i \in I, b \in B : req' = [req EXCEPT ![p] = update_Start(i, b)]
    /\ UNCHANGED <<store, nextId, deleted, now, session, schema, rest>>

\* mutant: the handler issues the UPDATE and validates afterwards
update_getById_WriteFirst(p) ==
    /\ req[p].pc = "getById"
    /\ req[p].op = "update"
    /\ LET n == parseInt(req[p].id)
           r == [req[p] EXCEPT !.found = n \in DOMAIN store]
           data == normalizeFields(sanitizeInput(r.body))
           errors == validateData(data, TRUE)
       IN  /\ req' = [req EXCEPT ![p] =
                  IF ~r.found THEN Answer(r, NotFoundResponse)
                  ELSE IF errors # <<>>
                  THEN Answer([r EXCEPT !.data = data, !.rows = 1], InvalidResponse(errors))
                  ELSE IF updateFields(data) = <<>>
                  THEN Answer([r EXCEPT !.data = data], Thrown(updateNoFieldsError))
                  ELSE Await([r EXCEPT !.data = data, !.stamp = now], "update")]
           /\ store' = [i \in DOMAIN store |->
                            IF i = n /\ errors # <<>> THEN updateRow(store[i], data, now)
                            ELSE store[i]]
    /\ UNCHANGED <<nextId, deleted, now, session, schema, rest>>

\* the existence check of update answers; the handler sanitizes, normalizes
\* and validates, and SolicitacaoModel.update builds its statement
update_getById(p) ==
    /\ req[p].pc = "getById"
    /\ req[p].op = "update"
    /\ LET r == [req[p] EXCEPT !.found = parseInt(req[p].id) \in DOMAIN store]
           data == normalizeFields(sanitizeInput(r.body))
           errors == validateData(data, TRUE)
       IN  req' = [req EXCEPT ![p] =
               IF ~r.found THEN Answer(r, NotFoundResponse)
               ELSE IF errors # <<>> THEN Answer(r, InvalidResponse(errors))
               ELSE IF updateFields(data) = <<>>
               THEN Answer([r EXCEPT !.data = data], Thrown(updateNoFieldsError))
               ELSE Await([r EXCEPT !.data = data, !.stamp = now], "update")]
    /\ UNCHANGED <<store, nextId, deleted, now, session, schema, rest>>

\* PATCH /solicitacoes/:id/status up to the existence check
updateStatus_Start(i, b) ==
    LET body == routerSanitize(b)
        r == Begin("updateStatus", i, body)
    IN  IF validatorsUpdateStatus(body) # <<>>
        THEN Reject(r, validatorsUpdateStatus(body))
        ELSE IF BadId(i) THEN Answer(r, BadIdResponse)
        ELSE IF ~Truthy(body, "status")
        THEN Answer(r, ErrorResponse(400, <<"Status e obrigatorio">>, <<>>))
        ELSE EnterHandler(r)

\* a PATCH /solicitacoes/:id/status that has passed the gates of the route
updateStatus_Request(p, I, B) ==
    /\ req[p].pc = "idle"
    /\ \E i \in I, b \in B : req' = [req EXCEPT ![p] = updateStatus_Start(i, b)]
    /\ UNCHANGED <<store, nextId, deleted, now, session, schema, rest>>

\* the existence check of updateStatus answers; the status is checked against
\* STATUS_OPTIONS and SolicitacaoModel.updateStatus calls update(id, {status})
updateStatus_getById(p) ==
    /\ req[p].pc = "getById"
    /\ req[p].op = "updateStatus"
    /\ LET r == [req[p] EXCEPT !.found = parseInt(req[p].id) \in DOMAIN store]
           data == [k \in {"status"} |-> r.body["status"]]
       IN  req' = [req EXCEPT ![p] =
               IF ~r.found THEN Answer(r, NotFoundResponse)
               ELSE IF r.body["status"] \notin STATUS_OPTIONS
               THEN Answer(r, ErrorResponse(400, <<"Status invalido">>, <<>>))
               ELSE Await([r EXCEPT !.data = data, !.stamp = now], "update")]
    /\ UNCHANGED <<store, nextId, deleted, now, session, schema, rest>>

\* DELETE /solicitacoes/:id up to the existence check
delete_Start(i) == EnterHandler(Begin("delete", i, NoBody))

\* a DELETE /solicitacoes/:id that has passed the gates of the route
delete_Request(p, I) ==
    /\ req[p].pc = "idle"
    /\ \E i \in I : req' = [req EXCEPT ![p] = delete_Start(i)]
    /\ UNCHANGED <<store, nextId, deleted, now, session, schema, rest>>

\* the existence check of delete answers
delete_getById(p) ==
    /\ req[p].pc = "getById"
    /\ req[p].op = "delete"
    /\ LET r == [req[p] EXCEPT !.found = parseInt(req[p].id) \in DOMAIN store]
       IN  req' = [req EXCEPT ![p] =
               IF ~r.found THEN Answer(r, NotFoundResponse)
               ELSE Await(r, "delete")]
    /\ UNCHANGED <<store, nextId, deleted, now, session, schema, rest>>

\* GET /solicitacoes/:id up to the SELECT
getById_Request(p, I) ==
    /\ req[p].pc = "idle"
    /\ \E i \in I : req' = [req EXCEPT ![p] = EnterHandler(Begin("getById", i, NoBody))]
    /\ UNCHANGED <<store, nextId, deleted, now, session, schema, rest>>

\* the SELECT of SolicitacaoModel.getById answers: the row, or null and 404
getById_Query(p) ==
    /\ req[p].pc = "getById"
    /\ req[p].op = "getById"
    /\ LET n == parseInt(req[p].id)
           r == [req[p] EXCEPT !.found = n \in DOMAIN store]
       IN  req' = [req EXCEPT ![p] =
               IF ~r.found THEN Answer(r, NotFoundResponse)
               ELSE Answer(r, SuccessResponse(200, <<store[n]>>))]
    /\ UNCHANGED <<store, nextId, deleted, now, session, schema, rest>>

-----------------------------------------------------------------------------
(* SolicitacaoController.getAll, SolicitacaoModel.getAll and count *)

Max(a, b) == IF a >= b THEN a ELSE b
Min(a, b) == IF a <= b THEN a ELSE b

\* parseInt(v) || dflt for a query value v, where an absent key has been
\* given the numeric default by the destructuring
parseIntOr(q, k, dflt) ==
    IF ~Has(q, k) \/ parseIntIsNaN(q[k]) \/ parseInt(q[k]) = 0 THEN dflt ELSE parseInt(q[k])

currentPage(q) == Max(1, parseIntOr(q, "page", 1))

\* mutant: the page size has no upper limit
itemsPerPage_NoCap(q) == Max(1, parseIntOr(q, "limit", 10))

itemsPerPage(q) == Min(100, Max(1, parseIntOr(q, "limit", 10)))

\* if (search) filters.search = sanitizeInput(search), and so on
FilterKeys == {"search", "status", "setor"}
filtersOf(q) == [k \in {f \in FilterKeys : Truthy(q, f)} |-> sanitizeString(q[k])]

\* text LIKE pattern: % stands for any run of characters, _ for any one
\* character, and a backslash takes the character after it literally
RECURSIVE Like(_, _)
Like(text, pattern) ==
    IF pattern = <<>> THEN text = <<>>
    ELSE IF Head(pattern) = "%"
         THEN Like(text, Tail(pattern)) \/ (text # <<>> /\ Like(Tail(text), pattern))
    ELSE IF Head(pattern) = "_" THEN text # <<>> /\ Like(Tail(text), Tail(pattern))
    ELSE IF Head(pattern) = "\\" /\ Len(pattern) >= 2
         THEN text # <<>> /\ Head(text) = pattern[2] /\ Like(Tail(text), Tail(Tail(pattern)))
    ELSE text # <<>> /\ Head(text) = Head(pattern) /\ Like(Tail(text), Tail(pattern))

\* text ILIKE $n  with the parameter `%${filters.search}%`
ILike(text, search) == Like(ToUpperCase(text), <<"%">> \o ToUpperCase(search) \o <<"%">>)

\* the WHERE clause SolicitacaoModel.getAll builds from the filters
conditions(row, f) ==
    /\ Truthy(f, "status") => row["status"] = f["status"]
    /\ Truthy(f, "setor") => row["setor"] = f["setor"]
    /\ Truthy(f, "search") =>
          ILike(row["nome_pessoa"], f["search"]) \/ ILike(row["equipamento"], f["search"])

Selected(f) == {i \in DOMAIN store : conditions(store[i], f)}

\* mutant: count leaves the search filter out
countConditions_NoSearch(row, f) ==
    /\ Truthy(f, "status") => row["status"] = f["status"]
    /\ Truthy(f, "setor") => row["setor"] = f["setor"]

\* the WHERE clause SolicitacaoModel.count builds from the filters
countConditions(row, f) ==
    /\ Truthy(f, "status") => row["status"] = f["status"]
    /\ Truthy(f, "setor") => row["setor"] = f["setor"]
    /\ Truthy(f, "search") =>
          ILike(row["nome_pessoa"], f["search"]) \/ ILike(row["equipamento"], f["search"])

Counted(f) == {i \in DOMAIN store : countConditions(store[i], f)}

\* ORDER BY data_solicitacao DESC; rows of equal date come highest id first
RECURSIVE orderBy(_)
orderBy(S) ==
    IF S = {} THEN <<>>
    ELSE LET first == CHOOSE i \in S : \A j \in S :
                          \/ store[i]["data_solicitacao"] > store[j]["data_solicitacao"]
                          \/ store[i]["data_solicitacao"] = store[j]["data_solicitacao"] /\ i >= j
         IN  <<first>> \o orderBy(S \ {first})

\* a row as SELECT * returns it
Row(i) == [k \in DOMAIN store[i] \cup {"id"} |-> IF k = "id" THEN i ELSE store[i][k]]

\* orderBy = 'data_solicitacao DESC' of the destructuring and of getAll
defaultOrder == <<"data_solicitacao", " ", "DESC">>

\* the ORDER BY text of a listing: req.query.orderBy when it is given
orderOf(q) == IF Has(q, "orderBy") THEN q["orderBy"] ELSE defaultOrder

\* the columns of solicitacoes, and the ones that hold numbers or instants
Columns ==
    {"id", "nome_pessoa", "setor", "centro_custo", "equipamento", "data_solicitacao",
     "status", "created_at", "updated_at"}
NumericColumns == {"id", "data_solicitacao", "created_at", "updated_at"}

\* ORDER BY text the store reads as one column with an optional direction
OneColumn(order) ==
    /\ Len(order) \in {1, 3}
    /\ order[1] \in Columns
    /\ Len(order) = 3 => order[2] = " " /\ order[3] \in {"ASC", "DESC"}

Descending(order) == Len(order) = 3 /\ order[3] = "DESC"

\* ORDER BY column [ASC | DESC] on a numeric column; rows of equal value
\* come highest id first
RECURSIVE sortBy(_, _)
sortBy(S, order) ==
    IF S = {} THEN <<>>
    ELSE LET v(i) == Row(i)[order[1]]
             before(i, j) == IF Descending(order) THEN v(i) > v(j) ELSE v(i) < v(j)
             first == CHOOSE i \in S : \A j \in S : before(i, j) \/ (v(i) = v(j) /\ i >= j)
         IN  <<first>> \o sortBy(S \ {first}, order)

\* SELECT * ... ORDER BY order LIMIT limit OFFSET offset, for an order the
\* store accepts
Model_getAllBy(f, order, limit, offset) ==
    LET ids == sortBy(Selected(f), order)
        page == SubSeq(ids, offset + 1, Min(offset + limit, Len(ids)))
    IN  [k \in 1..Len(page) |-> Row(page[k])]

\* the statement fails in the store (syntax error, unknown column) when the
\* text after ORDER BY is not an ordering
getAllError == Error(<<"Erro ao buscar solicitacoes no banco de dados">>)

\* SELECT * ... ORDER BY ... and, if (limit), LIMIT limit OFFSET offset;
\* limit is 0 where the caller passed none (null)
Model_getAll(f, limit, offset) ==
    LET ids == orderBy(Selected(f))
        page == IF limit = 0 THEN ids
                ELSE SubSeq(ids, offset + 1, Min(offset + limit, Len(ids)))
    IN  [k \in 1..Len(page) |-> Row(page[k])]

\* mutant: the count is one too many
Model_count_OneMore(f) == Cardinality(Counted(f)) + 1

\* a bigint as the driver hands it over: its decimal digits in a string
DigitChars == <<"0", "1", "2", "3", "4", "5", "6", "7", "8", "9">>
RECURSIVE Decimal(_)
Decimal(n) ==
    IF n < 10 THEN <<DigitChars[n + 1]>> ELSE Decimal(n \div 10) \o <<DigitChars[(n % 10) + 1]>>

\* SELECT COUNT(*) ... and parseInt(result.rows[0].total)
Model_count(f) == parseInt(Decimal(Cardinality(Counted(f))))

\* Math.ceil(totalItems / itemsPerPage)
totalPages(totalItems, perPage) == (totalItems + perPage - 1) \div perPage

\* mutant: has_next is true on the last page as well
hasNext_Inclusive(page, pages) == page <= pages

hasNext(page, pages) == page < pages

pagination(r) ==
    [current_page |-> r.page,
     total_pages |-> totalPages(r.total, r.limit),
     total_items |-> r.total,
     items_per_page |-> r.limit,
     has_previous |-> r.page > 1,
     has_next |-> hasNext(r.page, totalPages(r.total, r.limit))]

listResponse(r) ==
    SuccessResponse(200, <<[solicitacoes |-> r.items, pagination |-> pagination(r)]>>)

\* GET /solicitacoes up to Promise.all: both round trips are issued
getAll_Request(p, Q) ==
    /\ req[p].pc = "idle"
    /\ \E q0 \in Q :
        LET q == routerSanitize(q0)
            r == [Begin("getAll", <<>>, NoBody) EXCEPT
                     !.query = q,
                     !.order = orderOf(q),
                     !.filters = filtersOf(q),
                     !.page = currentPage(q),
                     !.limit = itemsPerPage(q),
                     !.offset = (currentPage(q) - 1) * itemsPerPage(q)]
        IN  req' = [req EXCEPT ![p] = Await(r, "list")]
    /\ UNCHANGED <<store, nextId, deleted, now, session, schema, rest>>

\* the SELECT of SolicitacaoModel.getAll answers
getAll_Rows(p) ==
    /\ req[p].pc \in {"list", "listRows"}
    /\ LET q == req[p]
           r == [q EXCEPT !.items =
                    IF q.order = defaultOrder THEN Model_getAll(q.filters, q.limit, q.offset)
                    ELSE Model_getAllBy(q.filters, q.order, q.limit, q.offset)]
       IN  req' = [req EXCEPT ![p] =
               IF ~OneColumn(q.order) THEN Answer(q, Thrown(getAllError))
               ELSE IF r.pc = "list" THEN Await(r, "listCount")
               ELSE Answer(r, listResponse(r))]
    /\ UNCHANGED <<store, nextId, deleted, now, session, schema, rest>>

\* the SELECT COUNT(*) of SolicitacaoModel.count answers
getAll_Count(p) ==
    /\ req[p].pc \in {"list", "listCount"}
    /\ LET r == [req[p] EXCEPT !.total = Model_count(req[p].filters)]
       IN  req' = [req EXCEPT ![p] =
               IF r.pc = "list" THEN Await(r, "listRows") ELSE Answer(r, listResponse(r))]
    /\ UNCHANGED <<store, nextId, deleted, now, session, schema, rest>>

\* SolicitacaoModel.getAll(filters) called directly, without a limit
Direct_getAll(p, F) ==
    /\ req[p].pc = "idle"
    /\ \E f \in F :
          req' = [req EXCEPT ![p] =
              [Idle EXCEPT !.op = "getAll", !.via = "model", !.filters = f,
                           !.order = defaultOrder, !.pc = "listRows"]]
    /\ UNCHANGED <<store, nextId, deleted, now, session, schema, rest>>

\* its SELECT answers
Direct_getAll_Rows(p) ==
    /\ req[p].pc = "listRows" /\ req[p].via = "model"
    /\ req' = [req EXCEPT ![p] =
           [@ EXCEPT !.pc = "done", !.items = Model_getAll(req[p].filters, 0, 0)]]
    /\ UNCHANGED <<store, nextId, deleted, now, session, schema, rest>>

\* SolicitacaoModel.count(filters) called directly
Direct_count(p, F) ==
    /\ req[p].pc = "idle"
    /\ \E f \in F :
          req' = [req EXCEPT ![p] =
              [Idle EXCEPT !.op = "count", !.via = "model", !.filters = f, !.pc = "listCount"]]
    /\ UNCHANGED <<store, nextId, deleted, now, session, schema, rest>>

\* its SELECT COUNT(*) answers
Direct_count_Total(p) ==
    /\ req[p].pc = "listCount" /\ req[p].via = "model"
    /\ req' = [req EXCEPT ![p] = [@ EXCEPT !.pc = "done", !.total = Model_count(req[p].filters)]]
    /\ UNCHANGED <<store, nextId, deleted, now, session, schema, rest>>

-----------------------------------------------------------------------------
(* SolicitacaoController.getStats and SolicitacaoModel.getStats *)

\* GROUP BY status
Groups == {store[i]["status"] : i \in DOMAIN store}
Quantidade(s) == Cardinality({i \in DOMAIN store : store[i]["status"] = s})

\* ORDER BY quantidade DESC: every order of the groups with the counts
\* descending; groups of equal count come in either order
StatsOrders ==
    {o \in [1..Cardinality(Groups) -> Groups] :
        /\ \A j, k \in DOMAIN o : j # k => o[j] # o[k]
        /\ \A j, k \in DOMAIN o : j < k => Quantidade(o[j]) >= Quantidade(o[k])}

\* the rows of the GROUP BY query in the order o
Model_getStats(o) ==
    [k \in DOMAIN o |-> [status |-> o[k], quantidade |-> Decimal(Quantidade(o[k]))]]

\* stats.reduce((total, stat) => total + parseInt(stat.quantidade), 0)
RECURSIVE totalSolicitacoes(_)
totalSolicitacoes(stats) ==
    IF stats = <<>> THEN 0
    ELSE totalSolicitacoes(SubSeq(stats, 1, Len(stats) - 1)) + parseInt(stats[Len(stats)].quantidade)

\* mutant: the percentage is cut off, not rounded
round_Floor(a, b) == a \div b

\* Math.round(a / b): the nearest integer, a half goes up
round(a, b) == (2 * a + b) \div (2 * b)

percentual(quantidade, total) == IF total > 0 THEN round(quantidade * 100, total) ELSE 0

statsWithPercentage(stats) ==
    [k \in DOMAIN stats |->
        [status |-> stats[k].status,
         quantidade |-> parseInt(stats[k].quantidade),
         percentual |-> percentual(parseInt(stats[k].quantidade), totalSolicitacoes(stats))]]

\* GET /solicitacoes/stats up to the GROUP BY round trip
getStats_Request(p) ==
    /\ req[p].pc = "idle"
    /\ req' = [req EXCEPT ![p] = Await(Begin("getStats", <<>>, NoBody), "stats")]
    /\ UNCHANGED <<store, nextId, deleted, now, session, schema, rest>>

\* the GROUP BY query answers and the handler adds total and percentages
getStats_Query(p) ==
    /\ req[p].pc = "stats"
    /\ \E o \in StatsOrders :
        LET stats == Model_getStats(o)
        IN  req' = [req EXCEPT ![p] =
                Answer(@, SuccessResponse(200, <<[stats |-> statsWithPercentage(stats),
                                                  total |-> totalSolicitacoes(stats)]>>))]
    /\ UNCHANGED <<store, nextId, deleted, now, session, schema, rest>>

-----------------------------------------------------------------------------
(* generateCSRF, csrfProtection and verifyCSRFToken in front of the mutating
   routes; SolicitacaoController.createTable *)

\* generateCSRF: a session without a token is given the fresh one
generateCSRF(sid, fresh) ==
    IF session[sid] = <<>> THEN [session EXCEPT ![sid] = fresh] ELSE session

\* req.body.csrf_token || req.headers['x-csrf-token']
csrfToken(body, header) == IF Truthy(body, "csrf_token") THEN body["csrf_token"] ELSE header

\* mutant: any token is accepted once the session has one
verifyCSRFToken_AnyToken(token, sessionToken) ==
    IF token = <<>> \/ sessionToken = <<>> THEN "false" ELSE "true"

\* verifyCSRFToken: false without a token on either side; timingSafeEqual
\* throws on buffers of different length and compares them otherwise
verifyCSRFToken(token, sessionToken) ==
    IF token = <<>> \/ sessionToken = <<>> THEN "false"
    ELSE IF Len(token) # Len(sessionToken) THEN "throws"
    ELSE IF token = sessionToken THEN "true"
    ELSE "false"

ForbiddenResponse == ErrorResponse(403, <<"Token de seguranca invalido">>, <<>>)

\* the RangeError of crypto.timingSafeEqual: no statusCode
timingSafeEqualError ==
    [message |-> <<"Input buffers must have the same byte length">>,
     code |-> "ERR_CRYPTO_TIMING_SAFE_EQUAL_LENGTH", statusCode |-> 0]

\* router sanitizeInput, then csrfProtection: the request goes on to the rest
\* of its route (start) or is answered 403, or 500 when the comparison throws
csrfProtection(o, i, b, header, sid, bound, start) ==
    LET body == routerSanitize(b)
        verdict == verifyCSRFToken(csrfToken(body, header), bound)
        stopped == [Begin(o, i, body) EXCEPT !.via = "csrf"]
        seen == [sid |-> sid, token |-> ValueOf(b, "csrf_token"), header |-> header,
                 bound |-> bound]
    IN  [(IF verdict = "true" THEN start
          ELSE IF verdict = "false" THEN Answer(stopped, ForbiddenResponse)
          ELSE Answer(stopped, Thrown(timingSafeEqualError)))
         EXCEPT !.csrf = seen]

createTableError == Error(<<"Erro ao criar tabela no banco de dados">>)

\* POST /admin/create-table up to the first statement of createTable
createTable_Start == Await(Begin("createTable", <<>>, NoBody), "createTable")

createTable_Request(p) ==
    /\ req[p].pc = "idle"
    /\ req' = [req EXCEPT ![p] = createTable_Start]
    /\ UNCHANGED <<store, nextId, deleted, now, session, schema, rest>>

\* the three CREATE INDEX statements, in the order of the loop
indexes == <<"idx_solicitacoes_status", "idx_solicitacoes_setor", "idx_solicitacoes_data">>

\* CREATE TABLE IF NOT EXISTS solicitacoes (...)
CreateTableIfNotExists(sch) == [sch EXCEPT !.table = TRUE]

\* mutant: the statement replaces the indexes that are there
CreateIndexIfNotExists_Replace(sch, name) == [sch EXCEPT !.indexes = {name}]

\* CREATE INDEX IF NOT EXISTS name ON solicitacoes(...)
CreateIndexIfNotExists(sch, name) == [sch EXCEPT !.indexes = @ \cup {name}]

\* the CREATE TABLE statement answers: a table that is there stays as it is,
\* a new one has no rows and a sequence that starts at 1
Model_createTable(p) ==
    /\ req[p].pc = "createTable"
    /\ schema' = CreateTableIfNotExists(schema)
    /\ store' = IF schema.table THEN store ELSE <<>>
    /\ nextId' = IF schema.table THEN nextId ELSE 1
    /\ req' = [req EXCEPT ![p] = Await([@ EXCEPT !.was = schema], indexes[1])]
    /\ UNCHANGED <<deleted, now, session, rest>>

\* a CREATE INDEX statement answers; after the last one the handler answers
\* 200; without the table the statement fails and createTable rethrows
Model_createIndex(p) ==
    /\ \E k \in 1..Len(indexes) :
        /\ req[p].pc = indexes[k]
        /\ IF schema.table
           THEN /\ schema' = CreateIndexIfNotExists(schema, indexes[k])
                /\ req' = [req EXCEPT ![p] =
                       IF k < Len(indexes) THEN Await(@, indexes[k + 1])
                       ELSE Answer(@, SuccessResponse(200, <<>>))]
           ELSE /\ schema' = schema
                /\ req' = [req EXCEPT ![p] = Answer(@, Thrown(createTableError))]
    /\ UNCHANGED <<store, nextId, deleted, now, session, rest>>

\* a mutating request arrives with a session cookie, a body and a header:
\* generateCSRF, then the route with csrfProtection in front
Mutating(p, o, i, b, start, Sids, Fresh, Headers) ==
    /\ req[p].pc = "idle"
    /\ \E sid \in Sids, fresh \in Fresh, header \in Headers :
          /\ session' = generateCSRF(sid, fresh)
          /\ req' = [req EXCEPT ![p] =
                 csrfProtection(o, i, b, header, sid, generateCSRF(sid, fresh)[sid], start)]
    /\ UNCHANGED <<store, nextId, deleted, now, schema, rest>>

csrf_create(p, cap, B, Sids, Fresh, Headers) ==
    /\ CanCreate(cap)
    /\ \E b \in B : Mutating(p, "create", <<>>, b, create_Start(b), Sids, Fresh, Headers)

csrf_update(p, I, B, Sids, Fresh, Headers) ==
    \E i \in I, b \in B : Mutating(p, "update", i, b, update_Start(i, b), Sids, Fresh, Headers)

csrf_updateStatus(p, I, B, Sids, Fresh, Headers) ==
    \E i \in I, b \in B :
        Mutating(p, "updateStatus", i, b, updateStatus_Start(i, b), Sids, Fresh, Headers)

csrf_delete(p, I, B, Sids, Fresh, Headers) ==
    \E i \in I, b \in B : Mutating(p, "delete", i, b, delete_Start(i), Sids, Fresh, Headers)

csrf_createTable(p, B, Sids, Fresh, Headers) ==
    \E b \in B : Mutating(p, "createTable", <<>>, b, createTable_Start, Sids, Fresh, Headers)

-----------------------------------------------------------------------------
(* A store round trip fails: query rethrows, the catch of the repository
   method throws a new Error, asyncHandler hands it to errorHandler;
   SolicitacaoController.health *)

\* error.code of a failed pool.query: connection refused, host not found,
\* unique violation, and a statement timeout for every other class
StoreFaults == {"ECONNREFUSED", "ENOTFOUND", "23505", "57014"}

\* what pool.query rejects with
queryError(code) == [message |-> <<code>>, code |-> code, statusCode |-> 0]

\* the Error the catch block of the method awaiting at pc throws instead
catchError(pc, error) ==
    CASE pc = "getById" -> getByIdError
      [] pc = "insert" -> Error(<<"Erro ao salvar solicitacao: ">> \o error.message)
      [] pc = "update" -> Error(<<"Erro ao atualizar solicitacao: ">> \o error.message)
      [] pc = "delete" -> deleteError
      [] pc \in {"list", "listRows"} -> Error(<<"Erro ao buscar solicitacoes no banco de dados">>)
      [] pc = "listCount" -> Error(<<"Erro ao contar solicitacoes no banco de dados">>)
      [] pc = "stats" -> Error(<<"Erro ao buscar estatisticas no banco de dados">>)
      [] pc = "health" -> Error(<<"Erro ao contar solicitacoes no banco de dados">>)
      [] OTHER -> createTableError

RoundTrips ==
    {"getById", "insert", "update", "delete", "list", "listRows", "listCount", "stats",
     "createTable", "health"} \cup Indexes

UnavailableResponse ==
    ErrorResponse(503, <<"Servico indisponivel - erro na conexao com o banco de dados">>, <<>>)

\* the round trip slot p awaits fails with a fault of F and changes nothing;
\* health answers 503 itself, every other handler leaves it to errorHandler
QueryFails(p, F) ==
    /\ req[p].pc \in RoundTrips
    /\ \E code \in F :
        LET r == [req[p] EXCEPT !.fault = code]
        IN  req' = [req EXCEPT ![p] =
                IF r.pc = "health" THEN Answer(r, UnavailableResponse)
                ELSE Answer(r, Thrown(catchError(r.pc, queryError(code))))]
    /\ UNCHANGED <<store, nextId, deleted, now, session, schema, rest>>

\* GET /health up to the COUNT(*) round trip
health_Request(p) ==
    /\ req[p].pc = "idle"
    /\ req' = [req EXCEPT ![p] = Await(Begin("health", <<>>, NoBody), "health")]
    /\ UNCHANGED <<store, nextId, deleted, now, session, schema, rest>>

\* the COUNT(*) answers: healthy
health_Count(p) ==
    /\ req[p].pc = "health"
    /\ req' = [req EXCEPT ![p] = Answer(@, SuccessResponse(200, <<"healthy">>))]
    /\ UNCHANGED <<store, nextId, deleted, now, session, schema, rest>>

\* the response has been sent; the slot serves the next request
Finish(p) ==
    /\ req[p].pc = "done"
    /\ req' = [req EXCEPT ![p] = Idle]
    /\ UNCHANGED <<store, nextId, deleted, now, session, schema, rest>>

-----------------------------------------------------------------------------
(* Requests the clients send *)

With(b, k, v) == [x \in DOMAIN b \cup {k} |-> IF x = k THEN v ELSE b[x]]
Without(b, k) == [x \in DOMAIN b \ {k} |-> b[x]]

\* a well-formed create payload
Base ==
    [nome_pessoa |-> <<"a">>, setor |-> <<"b">>, centro_custo |-> <<"c">>,
     equipamento |-> <<"d">>]

Bogus == <<"x">>

\* the status values a client may send: the four literals, a word that is
\* none of them, and the empty string
StatusInputs == {Pendente, EmAndamento, Comprado, Cancelado, Bogus, <<>>}

\* path parameters: the ids the sequence hands out, and a non-number
IdParams == {<<c>> : c \in {"1", "2", "3"}} \cup {<<"x">>}
SpecIds == {i \in IdParams : BadId(i) \/ parseInt(i) <= MaxId}

SpecCreateBodies ==
    {Base, With(Base, "status", Comprado), With(Base, "status", Bogus),
     With(Base, "equipamento", <<"<">>)}

SpecUpdateBodies ==
    {With(NoBody, "status", Cancelado), With(NoBody, "status", <<>>),
     With(NoBody, "nome_pessoa", <<"x", "<">>), With(NoBody, "setor", <<">">>), NoBody}

SpecStatusBodies ==
    {With(NoBody, "status", s) : s \in StatusInputs} \cup {NoBody}

-----------------------------------------------------------------------------
(* Spec: NReq requests served concurrently, one store round trip per step *)

Init ==
    /\ store = [i \in {} |-> Base]
    /\ nextId = 1
    /\ req = [p \in 1..NReq |-> Idle]
    /\ deleted = {}
    /\ now = 0
    /\ session = NoSession
    /\ Elsewhere

Next ==
    \/ \E p \in Slots : create_Request(p, MaxId, SpecCreateBodies)
    \/ \E p \in Slots : Model_create(p)
    \/ \E p \in Slots : update_Request(p, SpecIds, SpecUpdateBodies)
    \/ \E p \in Slots : update_getById(p)
    \/ \E p \in Slots : updateStatus_Request(p, SpecIds, SpecStatusBodies)
    \/ \E p \in Slots : updateStatus_getById(p)
    \/ \E p \in Slots : Model_update(p)
    \/ \E p \in Slots : delete_Request(p, SpecIds)
    \/ \E p \in Slots : delete_getById(p)
    \/ \E p \in Slots : Model_delete(p)
    \/ \E p \in Slots : getById_Request(p, SpecIds)
    \/ \E p \in Slots : getById_Query(p)
    \/ \E p \in Slots : Finish(p)

Spec == Init /\ [][Next]_vars

TypeOK ==
    /\ nextId \in 1..(MaxId + 1)
    /\ DOMAIN store \subseteq 1..(nextId - 1)
    /\ deleted \subseteq 1..(nextId - 1)
    /\ \A p \in Slots : req[p].pc \in {"idle", "getById", "insert", "update", "delete", "done"}

-----------------------------------------------------------------------------
(* SpecRace: one PUT and one DELETE in flight against row 1, nothing else *)

\* rows as the handlers store them
StoredRows ==
    {[nome_pessoa |-> <<"A">>, setor |-> <<"B">>, centro_custo |-> <<"C">>,
      equipamento |-> <<"D">>, status |-> s,
      data_solicitacao |-> 0, created_at |-> 0, updated_at |-> 0] :
        s \in StatusInputs \ {Bogus, <<>>}}

RaceId == <<"1">>

RaceBodies ==
    {With(NoBody, "status", s) : s \in {Comprado, Cancelado, Bogus}}
    \cup {With(NoBody, f, v) : f \in {"nome_pessoa", "equipamento"},
                               v \in {<<"x">>, <<" ", "x", "<">>, <<"<">>}}
    \cup {With(With(NoBody, "setor", <<"x">>), "status", EmAndamento)}

InitRace ==
    /\ \E r1 \in StoredRows, others \in SUBSET {2} :
          store = [i \in {1} \cup others |-> r1]
    /\ nextId = 3
    /\ req = [p \in {"put", "del"} |-> Idle]
    /\ deleted = {}
    /\ now = 0
    /\ session = NoSession
    /\ Elsewhere

NextRace ==
    \/ update_Request("put", {RaceId}, RaceBodies)
    \/ update_getById("put")
    \/ Model_update("put")
    \/ delete_Request("del", {RaceId})
    \/ delete_getById("del")
    \/ Model_delete("del")

SpecRace == InitRace /\ [][NextRace]_vars

-----------------------------------------------------------------------------
(* SpecSeq: one request at a time, payloads over every shape of text field *)

\* absent is the key left out; the other values of a text field
TextInputs ==
    {<<>>, <<" ">>, <<"<">>, <<"<", " ", ">">>, <<"x">>, <<" ", "x", " ">>,
     <<"<", " ", "x">>}

\* every subset of the required fields absent, empty or blank
MissingBodies ==
    {[f \in present |-> IF f \in blank THEN <<" ">> ELSE IF f \in empty THEN <<>> ELSE Base[f]] :
        present \in SUBSET TextFields, blank \in SUBSET {"setor", "equipamento"},
        empty \in SUBSET {"nome_pessoa", "centro_custo"}}

\* a well-formed payload with one field replaced
PerturbedBodies == {With(Base, f, v) : f \in TextFields, v \in TextInputs}

\* "Notebook Dell <script>"
NotebookDell ==
    <<"N", "o", "t", "e", "b", "o", "o", "k", " ", "D", "e", "l", "l", " ",
      "<", "s", "c", "r", "i", "p", "t", ">">>

SeqCreateBodies ==
    MissingBodies \cup PerturbedBodies \cup {With(Base, "equipamento", NotebookDell)}
    \cup {With(b, "status", s) : b \in {Base, Without(Base, "setor")}, s \in {Comprado, Bogus}}

SeqUpdateBodies ==
    {With(NoBody, f, v) : f \in TextFields, v \in TextInputs}
    \cup {With(NoBody, "status", s) : s \in {Comprado, Bogus, <<>>}}
    \cup {NoBody, With(With(NoBody, "setor", <<"x">>), "equipamento", <<">">>)}

SeqIds == {i \in IdParams : BadId(i) \/ parseInt(i) <= MaxSeqId + 1}

InitSeq ==
    /\ store = [i \in {} |-> Base]
    /\ nextId = 1
    /\ req = [p \in {1} |-> Idle]
    /\ deleted = {}
    /\ now = 0
    /\ session = NoSession
    /\ Elsewhere

NextSeq ==
    \/ \E p \in Slots : create_Request(p, MaxSeqId, SeqCreateBodies)
    \/ \E p \in Slots : Model_create(p)
    \/ \E p \in Slots : update_Request(p, SeqIds, SeqUpdateBodies)
    \/ \E p \in Slots : update_getById(p)
    \/ \E p \in Slots : Model_update(p)
    \/ \E p \in Slots : getById_Request(p, SeqIds)
    \/ \E p \in Slots : getById_Query(p)
    \/ \E p \in Slots : Finish(p)

SpecSeq == InitSeq /\ [][NextSeq]_vars

-----------------------------------------------------------------------------
(* SpecRepo: SolicitacaoModel.create called directly, without the handlers *)

RepoData ==
    {[f \in present |-> IF f \in empty THEN <<>> ELSE Base[f]] :
        present \in SUBSET TextFields, empty \in SUBSET TextFields}
    \cup {With(Base, f, v) : f \in TextFields, v \in {<<" ">>, <<" ", "x">>, <<"<">>}}
    \cup {With(Base, "status", s) : s \in {Comprado, Bogus}}

\* SolicitacaoModel.create(data) up to the INSERT
Direct_create(p, cap, D) ==
    /\ req[p].pc = "idle"
    /\ CanCreate(cap)
    /\ \E d \in D :
        LET r == [Begin("create", <<>>, NoBody) EXCEPT !.data = d, !.via = "model"]
        IN  req' = [req EXCEPT ![p] =
                IF FirstBlank(d, 1) # <<>>
                THEN Answer(r, Thrown(createError(d)))
                ELSE Await(r, "insert")]
    /\ UNCHANGED <<store, nextId, deleted, now, session, schema, rest>>

InitRepo == InitSeq

NextRepo ==
    \/ \E p \in Slots : Direct_create(p, MaxSeqId, RepoData)
    \/ \E p \in Slots : Model_create(p)
    \/ \E p \in Slots : Finish(p)

SpecRepo == InitRepo /\ [][NextRepo]_vars

-----------------------------------------------------------------------------
(* SpecTime: two requests in flight while the clock advances; rows 1 and 2
   are stored, row 3 may be created *)

\* time passes between two steps of the handlers
Tick ==
    /\ now < MaxClock
    /\ now' = now + 1
    /\ UNCHANGED <<store, nextId, req, deleted, session, schema, rest>>

\* keys a client may add to a payload beyond the five the model writes
ExtraKeys == [id |-> <<"2">>, created_at |-> <<"x">>, updated_at |-> <<"x">>]
WithExtra(b) == [k \in DOMAIN b \cup DOMAIN ExtraKeys |-> IF k \in DOMAIN b THEN b[k] ELSE ExtraKeys[k]]

TimeIds == {<<"1">>, <<"3">>}

TimePutBodies == {WithExtra(With(With(NoBody, "nome_pessoa", <<"x">>), "status", Comprado))}

TimeStatusBodies == {WithExtra(With(NoBody, "status", Cancelado))}

InitTime ==
    /\ \E r \in StoredRows : r.status = Pendente /\ store = [i \in {1, 2} |-> r]
    /\ nextId = 3
    /\ req = [p \in {"a", "b"} |-> Idle]
    /\ deleted = {}
    /\ now = 0
    /\ session = NoSession
    /\ Elsewhere

NextTime ==
    \/ Tick
    \/ \E p \in Slots : create_Request(p, 3, {Base})
    \/ \E p \in Slots : Model_create(p)
    \/ \E p \in Slots : update_Request(p, TimeIds, TimePutBodies)
    \/ \E p \in Slots : update_getById(p)
    \/ \E p \in Slots : updateStatus_Request(p, TimeIds, TimeStatusBodies)
    \/ \E p \in Slots : updateStatus_getById(p)
    \/ \E p \in Slots : Model_update(p)
    \/ \E p \in Slots : Finish(p)

SpecTime == InitTime /\ [][NextTime]_vars

-----------------------------------------------------------------------------
(* SpecList: listings of a table of up to MaxRows rows that nothing changes *)

\* the n-th stored row: names alternate, every third row is Comprado, and
\* the rows were requested one after the other
ListRow(n) ==
    [nome_pessoa |-> IF n % 2 = 1 THEN <<"A">> ELSE <<"X">>,
     setor |-> <<"B">>, centro_custo |-> <<"C">>, equipamento |-> <<"D">>,
     status |-> IF n % 3 = 0 THEN Comprado ELSE Pendente,
     data_solicitacao |-> n, created_at |-> n, updated_at |-> n]

\* values of ?page= : "0", "1", ..., a negative, a non-number, a number with
\* a tail, the empty string
PageInputs ==
    {<<"0">>, <<"1">>, <<"2">>, <<"3">>, <<"4">>, <<"-", "1">>, <<"x">>, <<"2", "x">>, <<>>}

\* values of ?limit=
LimitInputs ==
    {<<"0">>, <<"1">>, <<"1", "0">>, <<"1", "2">>, <<"1", "0", "0">>, <<"1", "0", "1">>,
     <<"-", "5">>, <<"x">>}

FilterInputs ==
    {NoBody, With(NoBody, "status", Comprado), With(NoBody, "status", <<"<", "Comprado", ">">>),
     With(NoBody, "search", <<"a">>), With(NoBody, "setor", <<"b">>),
     With(With(NoBody, "status", Pendente), "search", <<"x">>)}

\* a query: filters, and page and limit each given or absent
ListQueries ==
    {[k \in DOMAIN f \cup pl |-> IF k = "page" THEN pg ELSE IF k = "limit" THEN lm ELSE f[k]] :
        f \in FilterInputs, pl \in SUBSET {"page", "limit"},
        pg \in PageInputs, lm \in LimitInputs}

InitList ==
    /\ \E n \in 0..MaxRows : store = [i \in 1..n |-> ListRow(i)] /\ nextId = n + 1 /\ now = n
    /\ req = [p \in {1} |-> Idle]
    /\ deleted = {}
    /\ session = NoSession
    /\ Elsewhere

NextList ==
    \/ \E p \in Slots : getAll_Request(p, ListQueries)
    \/ \E p \in Slots : getAll_Rows(p)
    \/ \E p \in Slots : getAll_Count(p)
    \/ \E p \in Slots : Finish(p)

SpecList == InitList /\ [][NextList]_vars

-----------------------------------------------------------------------------
(* SpecStats: statistics over every table of up to MaxStats rows *)

StatusSeq == <<Pendente, EmAndamento, Comprado, Cancelado>>

\* how many rows each status has
StatusCounts ==
    {c \in [1..4 -> 0..MaxStats] : c[1] + c[2] + c[3] + c[4] <= MaxStats}

\* the rows of the first k statuses
RECURSIVE RowsUpTo(_, _)
RowsUpTo(c, k) == IF k = 0 THEN 0 ELSE c[k] + RowsUpTo(c, k - 1)

\* the status of row i when the rows come status by status
StatusAt(c, i) ==
    StatusSeq[CHOOSE k \in 1..4 : RowsUpTo(c, k - 1) < i /\ i <= RowsUpTo(c, k)]

InitStats ==
    /\ \E c \in StatusCounts :
          /\ store = [i \in 1..RowsUpTo(c, 4) |-> [ListRow(i) EXCEPT !["status"] = StatusAt(c, i)]]
          /\ nextId = RowsUpTo(c, 4) + 1
          /\ now = RowsUpTo(c, 4)
    /\ req = [p \in {1} |-> Idle]
    /\ deleted = {}
    /\ session = NoSession
    /\ Elsewhere

NextStats ==
    \/ \E p \in Slots : getStats_Request(p)
    \/ \E p \in Slots : getStats_Query(p)
    \/ \E p \in Slots : Finish(p)

SpecStats == InitStats /\ [][NextStats]_vars

-----------------------------------------------------------------------------
(* SpecCsrf: mutating requests with and without the token of their session;
   row 1 is stored *)

CsrfSids == {"s1", "s2"}

\* tokens generateCSRF may draw
FreshTokens == {<<"t">>, <<"u">>}

\* tokens a client may send: the drawn ones, one of another length, one
\* with white space around it, and none
TokenInputs == {<<"t">>, <<"u">>, <<"t", "t">>, <<" ", "t", " ">>, <<>>}

\* each payload with every token under csrf_token, and without the key
WithTokens(B) == B \cup {With(b, "csrf_token", t) : b \in B, t \in TokenInputs \ {<<"t", "t">>}}

CsrfHeaders == {<<>>, <<"t">>, <<"t", "t">>}

InitCsrf ==
    /\ \E r \in StoredRows : r.status = Pendente /\ store = [i \in {1} |-> r]
    /\ nextId = 2
    /\ req = [p \in {1} |-> Idle]
    /\ deleted = {}
    /\ now = 0
    /\ session = [sid \in CsrfSids |-> <<>>]
    /\ Elsewhere

NextCsrf ==
    \/ \E p \in Slots : csrf_create(p, 2, WithTokens({Base}), CsrfSids, FreshTokens, CsrfHeaders)
    \/ \E p \in Slots : Model_create(p)
    \/ \E p \in Slots : csrf_update(p, {<<"1">>}, WithTokens({With(NoBody, "status", Cancelado)}),
                                      CsrfSids, FreshTokens, CsrfHeaders)
    \/ \E p \in Slots : update_getById(p)
    \/ \E p \in Slots : csrf_updateStatus(p, {<<"1">>}, WithTokens({With(NoBody, "status", Comprado)}),
                                            CsrfSids, FreshTokens, CsrfHeaders)
    \/ \E p \in Slots : updateStatus_getById(p)
    \/ \E p \in Slots : Model_update(p)
    \/ \E p \in Slots : csrf_delete(p, {<<"1">>}, WithTokens({NoBody}), CsrfSids, FreshTokens, CsrfHeaders)
    \/ \E p \in Slots : delete_getById(p)
    \/ \E p \in Slots : Model_delete(p)
    \/ \E p \in Slots : csrf_createTable(p, WithTokens({NoBody}), CsrfSids, FreshTokens, CsrfHeaders)
    \/ \E p \in Slots : Model_createTable(p)
    \/ \E p \in Slots : Model_createIndex(p)
    \/ \E p \in Slots : Finish(p)

SpecCsrf == InitCsrf /\ [][NextCsrf]_vars

-----------------------------------------------------------------------------
(* SpecFault: one request at a time against a store whose round trips may
   fail; row 1 is stored *)

FaultIds == {<<"1">>, <<"2">>}

InitFault ==
    /\ \E r \in StoredRows : r.status = Pendente /\ store = [i \in {1} |-> r]
    /\ nextId = 2
    /\ req = [p \in {1} |-> Idle]
    /\ deleted = {}
    /\ now = 0
    /\ session = NoSession
    /\ Elsewhere

NextFault ==
    \/ \E p \in Slots : QueryFails(p, StoreFaults)
    \/ \E p \in Slots : create_Request(p, 2, {Base})
    \/ \E p \in Slots : Model_create(p)
    \/ \E p \in Slots : update_Request(p, FaultIds, {With(NoBody, "status", Cancelado)})
    \/ \E p \in Slots : update_getById(p)
    \/ \E p \in Slots : updateStatus_Request(p, FaultIds, {With(NoBody, "status", Comprado)})
    \/ \E p \in Slots : updateStatus_getById(p)
    \/ \E p \in Slots : Model_update(p)
    \/ \E p \in Slots : delete_Request(p, FaultIds)
    \/ \E p \in Slots : delete_getById(p)
    \/ \E p \in Slots : Model_delete(p)
    \/ \E p \in Slots : getById_Request(p, FaultIds)
    \/ \E p \in Slots : getById_Query(p)
    \/ \E p \in Slots : getAll_Request(p, {NoBody, With(NoBody, "status", Pendente)})
    \/ \E p \in Slots : getAll_Rows(p)
    \/ \E p \in Slots : getAll_Count(p)
    \/ \E p \in Slots : getStats_Request(p)
    \/ \E p \in Slots : getStats_Query(p)
    \/ \E p \in Slots : health_Request(p)
    \/ \E p \in Slots : health_Count(p)
    \/ \E p \in Slots : Finish(p)

SpecFault == InitFault /\ [][NextFault]_vars

-----------------------------------------------------------------------------
(* SpecGet: GET /solicitacoes/:id with every shape of id, rows 1 and 2 stored *)

\* ids as they arrive in req.params: well-formed ones, zero, a negative and a
\* signed one, fractions, a blank, and strings that are no number
GetIds ==
    {<<"1">>, <<"2">>, <<"3">>, <<"0">>, <<"-", "1">>, <<"+", "1">>,
     <<"1", ".", "5">>, <<"2", ".">>, <<".", "5">>, <<" ">>, <<"1", "x">>, <<"x">>}

InitGet ==
    /\ \E r \in StoredRows : r.status = Pendente /\ store = [i \in {1, 2} |-> r]
    /\ nextId = 3
    /\ req = [p \in {"a", "b"} |-> Idle]
    /\ deleted = {}
    /\ now = 0
    /\ session = NoSession
    /\ Elsewhere

NextGet ==
    \/ \E p \in Slots : getById_Request(p, GetIds)
    \/ \E p \in Slots : getById_Query(p)
    \/ \E p \in Slots : Finish(p)

SpecGet == InitGet /\ [][NextGet]_vars

-----------------------------------------------------------------------------
(* SpecSchema: createTable called by two callers at a time, on a store with
   or without the table, with any of the indexes, whose round trips may fail
   because the store cannot be reached *)

Unreachable == {"ECONNREFUSED", "ENOTFOUND"}

Schemas ==
    {[table |-> FALSE, indexes |-> {}]} \cup {[table |-> TRUE, indexes |-> S] : S \in SUBSET Indexes}

InitSchema ==
    /\ schema \in Schemas
    /\ \E n \in 0..MaxId, r \in StoredRows :
          /\ r.status = Pendente
          /\ ~schema.table => n = 0
          /\ store = [i \in 1..n |-> r]
          /\ nextId = n + 1
    /\ req = [p \in {"a", "b"} |-> Idle]
    /\ deleted = {}
    /\ now = 0
    /\ session = NoSession
    /\ Untouched

NextSchema ==
    \/ \E p \in Slots : createTable_Request(p)
    \/ \E p \in Slots : Model_createTable(p)
    \/ \E p \in Slots : Model_createIndex(p)
    \/ \E p \in Slots : QueryFails(p, Unreachable)
    \/ \E p \in Slots : Finish(p)

SpecSchema == InitSchema /\ [][NextSchema]_vars

-----------------------------------------------------------------------------
(* SpecOrder: listings that name their ordering, on a table nothing changes *)

\* values of ?orderBy= : the default, orderings by one column, a word that
\* is no column, the empty string, and two sort keys
OrderInputs ==
    {defaultOrder, <<"id">>, <<"id", " ", "ASC">>, <<"created_at", " ", "DESC">>,
     <<"bogus">>, <<>>, <<"id", ",", "status">>}

OrderQueries ==
    {NoBody, With(NoBody, "page", <<"2">>)}
    \cup {With(With(NoBody, "limit", <<"2">>), "orderBy", o) : o \in OrderInputs}

InitOrder ==
    /\ \E n \in 0..MaxStats : store = [i \in 1..n |-> ListRow(i)] /\ nextId = n + 1 /\ now = n
    /\ req = [p \in {1} |-> Idle]
    /\ deleted = {}
    /\ session = NoSession
    /\ Elsewhere

NextOrder ==
    \/ \E p \in Slots : getAll_Request(p, OrderQueries)
    \/ \E p \in Slots : getAll_Rows(p)
    \/ \E p \in Slots : getAll_Count(p)
    \/ \E p \in Slots : Finish(p)

SpecOrder == InitOrder /\ [][NextOrder]_vars

-----------------------------------------------------------------------------
(* SpecCount: getAll without a limit and count called directly, with the
   same or different filters, on every table of up to MaxId rows *)

\* rows that differ in the three filtered columns
CountRows ==
    {[nome_pessoa |-> r[1], setor |-> r[2], centro_custo |-> <<"C">>, equipamento |-> <<"D">>,
      status |-> r[3], data_solicitacao |-> 0, created_at |-> 0, updated_at |-> 0] :
        r \in {<<<<"A", "B">>, <<"B">>, Pendente>>, <<<<"X">>, <<"B">>, Comprado>>,
               <<<<"A", "B">>, <<"S">>, Comprado>>, <<<<"X">>, <<"S">>, Pendente>>}}

\* filters: each of status, setor and search absent or given; a status and a
\* search may be the empty string, a search may hold % or _
CountFilters ==
    {[k \in ks |-> IF k = "status" THEN st ELSE IF k = "setor" THEN <<"B">> ELSE se] :
        ks \in SUBSET FilterKeys, st \in {Comprado, <<>>},
        se \in {<<"a">>, <<"d">>, <<"_">>, <<"x", "%">>}}

InitCount ==
    /\ \E n \in 0..MaxId : store \in [1..n -> CountRows] /\ nextId = n + 1
    /\ req = [p \in {"getAll", "count"} |-> Idle]
    /\ deleted = {}
    /\ now = 0
    /\ session = NoSession
    /\ Elsewhere

NextCount ==
    \/ Direct_getAll("getAll", CountFilters)
    \/ Direct_getAll_Rows("getAll")
    \/ Direct_count("count", CountFilters)
    \/ Direct_count_Total("count")
    \/ \E p \in Slots : Finish(p)

SpecCount == InitCount /\ [][NextCount]_vars

-----------------------------------------------------------------------------
(* database.js: transaction(callback) on the connection pool *)

\* the call of caller c moves on, the other callers stay
Calls(c, next) == call' = [call EXCEPT ![c] = next]

\* client.query(text): the statement is sent on the call's connection
Sent(k, text) == [k EXCEPT !.log = Append(@, text)]

\* the catch block is entered with the error of the await named by
Caught(k, by) == [k EXCEPT !.caught = by, !.pc = "ROLLBACK"]

\* finally { client.release() }, then the promise settles
Settled(k, result, error) ==
    [k EXCEPT !.pc = "done", !.holds = @ - 1, !.releases = @ + 1,
              !.result = result, !.error = error]

\* const client = await pool.connect(): a connection is checked out, or the
\* pool rejects (no connection free within connectionTimeoutMillis, or the
\* store cannot be reached) and transaction rejects with that error
transaction_connect(c) ==
    /\ call[c].pc = "idle"
    /\ \E ok \in BOOLEAN :
        LET k == [NoCall EXCEPT !.op = "transaction"]
        IN  IF ok
            THEN /\ pool.out < PoolMax
                 /\ pool' = [pool EXCEPT !.out = @ + 1]
                 /\ Calls(c, [k EXCEPT !.pc = "BEGIN", !.holds = 1])
            ELSE /\ pool' = pool
                 /\ Calls(c, [k EXCEPT !.pc = "done", !.result = "rejected",
                                       !.error = "connect"])
    /\ UNCHANGED <<store, nextId, req, deleted, now, session, schema, proc, client>>

\* await client.query('BEGIN') resolves or rejects
transaction_BEGIN(c) ==
    /\ call[c].op = "transaction" /\ call[c].pc = "BEGIN"
    /\ \E ok \in BOOLEAN :
        LET k == Sent(call[c], "BEGIN")
        IN  Calls(c, IF ok THEN [k EXCEPT !.pc = "callback"] ELSE Caught(k, "BEGIN"))
    /\ UNCHANGED <<store, nextId, req, deleted, now, session, schema, pool, proc, client>>

\* await callback(client) resolves or rejects
transaction_callback(c) ==
    /\ call[c].op = "transaction" /\ call[c].pc = "callback"
    /\ \E ok \in BOOLEAN :
        LET k == Sent(call[c], "callback")
        IN  Calls(c, IF ok THEN [k EXCEPT !.pc = "COMMIT"] ELSE Caught(k, "callback"))
    /\ UNCHANGED <<store, nextId, req, deleted, now, session, schema, pool, proc, client>>

\* await client.query('COMMIT') resolves (return result, finally) or rejects
transaction_COMMIT(c) ==
    /\ call[c].op = "transaction" /\ call[c].pc = "COMMIT"
    /\ \E ok \in BOOLEAN :
        LET k == Sent(call[c], "COMMIT")
        IN  /\ Calls(c, IF ok THEN Settled(k, "resolved", "") ELSE Caught(k, "COMMIT"))
            /\ pool' = IF ok THEN [pool EXCEPT !.out = @ - 1] ELSE pool
    /\ UNCHANGED <<store, nextId, req, deleted, now, session, schema, proc, client>>

\* catch: await client.query('ROLLBACK') resolves, then throw error; or it
\* rejects, and its own error leaves the catch block; finally either way
transaction_ROLLBACK(c) ==
    /\ call[c].op = "transaction" /\ call[c].pc = "ROLLBACK"
    /\ \E ok \in BOOLEAN :
        LET k == Sent(call[c], "ROLLBACK")
        IN  Calls(c, Settled(k, "rejected", IF ok THEN k.caught ELSE "ROLLBACK"))
    /\ pool' = [pool EXCEPT !.out = @ - 1]
    /\ UNCHANGED <<store, nextId, req, deleted, now, session, schema, proc, client>>

\* the caller has its answer and may call again
Returned(c) ==
    /\ call[c].pc = "done"
    /\ Calls(c, NoCall)
    /\ UNCHANGED <<store, nextId, req, deleted, now, session, schema, pool, proc, client>>

-----------------------------------------------------------------------------
(* SpecTx: two callers of transaction, any await of which may fail *)

InitTx ==
    /\ store = <<>>
    /\ nextId = 1
    /\ req = [p \in {1} |-> Idle]
    /\ deleted = {}
    /\ now = 0
    /\ session = NoSession
    /\ Elsewhere

NextTx ==
    \/ \E c \in Callers : transaction_connect(c)
    \/ \E c \in Callers : transaction_BEGIN(c)
    \/ \E c \in Callers : transaction_callback(c)
    \/ \E c \in Callers : transaction_COMMIT(c)
    \/ \E c \in Callers : transaction_ROLLBACK(c)
    \/ \E c \in Callers : Returned(c)

SpecTx == InitTx /\ [][NextTx]_vars

-----------------------------------------------------------------------------
(* The process: HTTP server, pool, and the handlers of SIGTERM and SIGINT
   that database.js and startServer register *)

\* the server accepts a request
Arrive ==
    /\ proc.exit = -1 /\ ~proc.closing
    /\ proc.inflight < MaxInflight
    /\ proc' = [proc EXCEPT !.inflight = @ + 1]
    /\ UNCHANGED <<store, nextId, req, deleted, now, session, schema, pool, call, client>>

\* a request in flight awaits pool.query: a connection is checked out
QueryBegins ==
    /\ proc.exit = -1 /\ ~pool.ending
    /\ pool.out < proc.inflight /\ pool.out < PoolMax
    /\ pool' = [pool EXCEPT !.out = @ + 1]
    /\ UNCHANGED <<store, nextId, req, deleted, now, session, schema, call, proc, client>>

\* the query answers and its connection goes back to the pool
QueryEnds ==
    /\ proc.exit = -1
    /\ pool.out > 0
    /\ pool' = [pool EXCEPT !.out = @ - 1]
    /\ UNCHANGED <<store, nextId, req, deleted, now, session, schema, call, proc, client>>

\* a request that awaits no query is answered (with an error when pool.query
\* rejected because end() had been called)
Respond ==
    /\ proc.exit = -1
    /\ proc.inflight > pool.out
    /\ proc' = [proc EXCEPT !.inflight = @ - 1]
    /\ UNCHANGED <<store, nextId, req, deleted, now, session, schema, pool, call, client>>

\* process.exit(code), called by the callback named by
Exit(code, by) == [proc EXCEPT !.exit = code, !.by = by, !.cut = proc.inflight]

\* the signal arrives and both listeners run, in the order they were
\* registered: the one of database.js calls closePool and awaits pool.end(),
\* gracefulShutdown calls server.close(callback) and arms the timer
Signal(sig) ==
    /\ proc.exit = -1 /\ proc.signal = ""
    /\ pool' = [pool EXCEPT !.ending = TRUE]
    /\ proc' = [proc EXCEPT !.signal = sig, !.ending = TRUE, !.closing = TRUE, !.timer = TRUE]
    /\ UNCHANGED <<store, nextId, req, deleted, now, session, schema, call, client>>

\* pool.end() resolves once every connection is back; the listener of
\* database.js goes on to process.exit(0)
closePool ==
    /\ proc.exit = -1 /\ proc.ending
    /\ pool.out = 0
    /\ proc' = Exit(0, "closePool")
    /\ UNCHANGED <<store, nextId, req, deleted, now, session, schema, pool, call, client>>

\* the server has closed: no request is in flight; its callback exits with 0
serverClosed ==
    /\ proc.exit = -1 /\ proc.closing
    /\ proc.inflight = 0
    /\ proc' = [Exit(0, "server.close") EXCEPT !.closed = TRUE]
    /\ UNCHANGED <<store, nextId, req, deleted, now, session, schema, pool, call, client>>

\* the timer of gracefulShutdown fires after 10 seconds
forceShutdown ==
    /\ proc.exit = -1 /\ proc.timer
    /\ proc' = Exit(1, "setTimeout")
    /\ UNCHANGED <<store, nextId, req, deleted, now, session, schema, pool, call, client>>

-----------------------------------------------------------------------------
(* SpecShutdown: up to MaxInflight requests in flight when a signal arrives *)

InitShutdown == InitTx

NextShutdown ==
    \/ Arrive
    \/ QueryBegins
    \/ QueryEnds
    \/ Respond
    \/ \E sig \in {"SIGTERM", "SIGINT"} : Signal(sig)
    \/ closePool
    \/ serverClosed
    \/ forceShutdown

SpecShutdown == InitShutdown /\ [][NextShutdown]_vars

-----------------------------------------------------------------------------
(* database.js: testConnection *)

\* const client = await pool.connect(): a connection is checked out, or the
\* pool rejects (none free within connectionTimeoutMillis, or the store
\* cannot be reached), the catch block logs and returns false
testConnection_connect(c) ==
    /\ call[c].pc = "idle"
    /\ \E ok \in BOOLEAN :
        LET k == [NoCall EXCEPT !.op = "testConnection"]
        IN  IF ok
            THEN /\ pool.out < PoolMax
                 /\ pool' = [pool EXCEPT !.out = @ + 1]
                 /\ Calls(c, [k EXCEPT !.pc = "query", !.holds = 1])
            ELSE /\ pool' = pool
                 /\ Calls(c, [k EXCEPT !.pc = "done", !.result = "false", !.caught = "connect"])
    /\ UNCHANGED <<store, nextId, req, deleted, now, session, schema, proc, client>>

\* await client.query('SELECT NOW()') resolves: client.release(), return
\* true; or it rejects: the catch block returns false
testConnection_query(c) ==
    /\ call[c].op = "testConnection" /\ call[c].pc = "query"
    /\ \E ok \in BOOLEAN :
        LET k == Sent(call[c], "SELECT NOW()")
        IN  IF ok
            THEN /\ pool' = [pool EXCEPT !.out = @ - 1]
                 /\ Calls(c, Settled(k, "true", ""))
            ELSE /\ pool' = pool
                 /\ Calls(c, [k EXCEPT !.pc = "done", !.result = "false", !.caught = "query"])
    /\ UNCHANGED <<store, nextId, req, deleted, now, session, schema, proc, client>>

-----------------------------------------------------------------------------
(* SpecPool: two callers of testConnection, again and again *)

InitPool == InitTx

NextPool ==
    \/ \E c \in Callers : testConnection_connect(c)
    \/ \E c \in Callers : testConnection_query(c)
    \/ \E c \in Callers : Returned(c)

SpecPool == InitPool /\ [][NextPool]_vars

-----------------------------------------------------------------------------
(* The browser script: loadSolicitacoes and the globals currentPage and
   currentFilters *)

\* loadSolicitacoes(page, filters) up to the await: showLoading, then the
\* request is sent
loadSolicitacoes(page, filters) ==
    /\ Len(client.calls) < MaxCalls
    /\ client' = [client EXCEPT
           !.shown = [@ EXCEPT !.view = "loading"],
           !.calls = Append(@, [page |-> page, filters |-> filters, state |-> "pending"])]
    /\ UNCHANGED <<store, nextId, req, deleted, now, session, schema, pool, call, proc>>

\* the response of the k-th call arrives: renderSolicitacoes(response.data)
\* shows the page it carries, then the globals are assigned
loadSolicitacoes_then(k) ==
    /\ k \in 1..Len(client.calls)
    /\ client.calls[k].state = "pending"
    /\ client' = [client EXCEPT
           !.shown = [view |-> "table", page |-> client.calls[k].page,
                      filters |-> client.calls[k].filters],
           !.currentPage = client.calls[k].page,
           !.currentFilters = client.calls[k].filters,
           !.calls[k].state = "rendered"]
    /\ UNCHANGED <<store, nextId, req, deleted, now, session, schema, pool, call, proc>>

\* makeRequest of the k-th call throws: showError, the globals stay
loadSolicitacoes_catch(k) ==
    /\ k \in 1..Len(client.calls)
    /\ client.calls[k].state = "pending"
    /\ client' = [client EXCEPT
           !.shown = [@ EXCEPT !.view = "error"],
           !.calls[k].state = "failed"]
    /\ UNCHANGED <<store, nextId, req, deleted, now, session, schema, pool, call, proc>>

-----------------------------------------------------------------------------
(* SpecClient: up to MaxCalls calls of loadSolicitacoes whose responses
   arrive in any order *)

ClientPages == {1, 2}
ClientFilters == {NoBody, With(NoBody, "status", Pendente)}

InitClient == InitTx

NextClient ==
    \/ \E page \in ClientPages, filters \in ClientFilters : loadSolicitacoes(page, filters)
    \/ \E k \in 1..MaxCalls : loadSolicitacoes_then(k)
    \/ \E k \in 1..MaxCalls : loadSolicitacoes_catch(k)

SpecClient == InitClient /\ [][NextClient]_vars

-----------------------------------------------------------------------------
(* SpecListRace: a listing served while another request creates or deletes
   records; rows 1 and 2 are stored *)

RaceQueries == {NoBody, With(NoBody, "limit", <<"1">>), With(NoBody, "page", <<"2">>)}

InitListRace ==
    /\ \E r \in StoredRows : r.status = Pendente /\ store = [i \in {1, 2} |-> r]
    /\ nextId = 3
    /\ req = [p \in {"list", "write"} |-> Idle]
    /\ deleted = {}
    /\ now = 0
    /\ session = NoSession
    /\ Elsewhere

NextListRace ==
    \/ getAll_Request("list", RaceQueries)
    \/ getAll_Rows("list")
    \/ getAll_Count("list")
    \/ create_Request("write", 3, {Base})
    \/ Model_create("write")
    \/ delete_Request("write", {<<"1">>, <<"2">>})
    \/ delete_getById("write")
    \/ Model_delete("write")
    \/ \E p \in Slots : Finish(p)

SpecListRace == InitListRace /\ [][NextListRace]_vars

-----------------------------------------------------------------------------
(* Claims *)

Done(p) == req[p].pc = "done"
Code(p) == req[p].res.code
FourStatuses == {<<"Pendente">>, <<"Em", " ", "Andamento">>, <<"Comprado">>, <<"Cancelado">>}

\* the PUT body passes the route validators and validateData and names a field
ValidPut(b) ==
    /\ DOMAIN b # {}
    /\ \A f \in DOMAIN b \cap TextFields : \E i \in 1..Len(b[f]) : b[f][i] \notin {" ", "<", ">"}
    /\ "status" \in DOMAIN b => b["status"] \in FourStatuses

RaceOver == Done("put") /\ Done("del")

\* C1 as claimed: of a PUT (valid body) and a DELETE racing on one existing
\* id, exactly one succeeds and the other one is answered 404.
C1_ExactlyOneSucceeds ==
    (RaceOver /\ ValidPut(req["put"].body)) =>
        \/ Code("put") = 200 /\ Code("del") = 404
        \/ Code("del") = 200 /\ Code("put") = 404

\* C1 amended: the DELETE always succeeds and the row is gone at the end; the
\* PUT succeeds exactly when its UPDATE statement still found the row (so both
\* may succeed); otherwise it is answered 404 when its existence check found
\* no row, and 500 when only its UPDATE statement found none.
C1_DeleteWinsPutMaySucceed ==
    RaceOver =>
        /\ Code("del") = 200
        /\ req["del"].rows = 1
        /\ 1 \notin DOMAIN store
        /\ Code("put") = 200 <=> req["put"].rows = 1
        /\ ValidPut(req["put"].body) =>
              /\ Code("put") \in {200, 404, 500}
              /\ Code("put") = 404 <=> ~req["put"].found
              /\ Code("put") = 500 <=> (req["put"].found /\ req["put"].rows = 0)

\* both requests succeeded: the UPDATE ran before the DELETE statement
C1_Witness == RaceOver /\ Code("put") = 200 /\ Code("del") = 200


\* C2 as claimed: a mutating statement that finds zero rows after the
\* existence check had found the row is answered 404, never anything else.
C2_ZeroRowsAnswers404 ==
    \A p \in Slots :
        (Done(p) /\ req[p].op \in {"update", "updateStatus", "delete"}
            /\ req[p].found /\ req[p].rows = 0) => Code(p) = 404

C3_Inv == \A i \in DOMAIN store : store[i].status \in FourStatuses

C3_Step ==
    \A p \in Slots :
        (req[p].pc = "insert" /\ req'[p].pc = "done" /\ "status" \notin DOMAIN req[p].body)
            => store'[req'[p].res.data[1]].status = <<"Pendente">>

\* C3: every stored row has one of the four status values, whatever requests
\* went through the route, and a create without status stores Pendente.
C3_StatusAlwaysValid == []C3_Inv /\ [][C3_Step]_vars

\* a create without status was answered 201 and a PUT has set another status
C3_Witness ==
    \E p \in Slots, i \in DOMAIN store :
        /\ Done(p) /\ req[p].op = "create" /\ Code(p) = 201
        /\ "status" \notin DOMAIN req[p].body
        /\ req[p].res.data = <<i>> /\ store[i].status = <<"Pendente">>
        /\ \E j \in DOMAIN store : store[j].status = <<"Cancelado">>

Validated == {"create", "update", "updateStatus"}

C8_NoStatement ==
    \A p \in Slots :
        (Done(p) /\ Code(p) = 400 /\ req[p].op \in Validated) => req[p].rows = -1

C8_Step ==
    \A p \in Slots :
        (req[p].pc # "done" /\ req'[p].pc = "done" /\ req'[p].res.code = 400
            /\ req'[p].op \in Validated)
            => store' = store /\ nextId' = nextId

\* C8: a create, update or updateStatus request answered 400 has issued no
\* insert or update statement, and the step that answers 400 leaves every
\* stored row as it was.
C8_ValidationBeforeWrite == []C8_NoStatement /\ [][C8_Step]_vars

\* a PUT on an existing row was answered 400 by validateData
C8_Witness ==
    \E p \in Slots :
        /\ Done(p) /\ req[p].op = "update" /\ Code(p) = 400
        /\ req[p].via = "handler" /\ req[p].found
        /\ parseInt(req[p].id) \in DOMAIN store

\* C9: an id removed by a successful DELETE never holds a row again, and a
\* request on it issued after the removal never succeeds and issues no
\* statement: when it reaches its handler it is answered 404 (update,
\* updateStatus, delete and getById alike).
C9_DeletedStaysGone ==
    /\ \A i \in deleted : i \notin DOMAIN store
    /\ \A p \in Slots :
        req[p].late =>
            /\ Code(p) \notin {200, 201}
            /\ req[p].rows = -1
            /\ ~req[p].found
            /\ (Done(p) /\ req[p].via = "handler") => Code(p) = 404

\* after the DELETE of an id, a PUT and another request on it were answered 404
C9_Witness ==
    \E p, q \in Slots :
        /\ p # q /\ req[p].id = req[q].id
        /\ req[p].late /\ Done(p) /\ req[p].op = "update" /\ Code(p) = 404
        /\ req[q].late /\ Done(q) /\ req[q].op \in {"updateStatus", "delete"} /\ Code(q) = 404

WellFormedId(i) == i # <<>> /\ \A k \in 1..Len(i) : i[k] \in Digits
ValidStatusBody(b) == "status" \in DOMAIN b /\ b["status"] \in FourStatuses

C10_State ==
    \A p \in Slots :
        (Done(p) /\ req[p].op = "updateStatus") =>
            /\ ~ValidStatusBody(req[p].body) => (Code(p) = 400 /\ req[p].rows = -1)
            /\ (ValidStatusBody(req[p].body) /\ WellFormedId(req[p].id)) =>
                  /\ Code(p) \in {200, 404, 500}
                  /\ Code(p) = 200 <=> (req[p].found /\ req[p].rows = 1)
                  /\ Code(p) = 404 <=> ~req[p].found

C10_Step ==
    \A p \in Slots :
        (req[p].op = "updateStatus" /\ req[p].pc # "done" /\ req'[p].pc = "done") =>
            /\ req'[p].res.code = 400 => store' = store
            /\ req'[p].res.code = 200 =>
                  store'[parseInt(req[p].id)].status = req[p].body["status"]

\* C10: a PATCH whose status is missing or not one of the four values is
\* answered 400 and changes no row; with one of the four values it is
\* answered 200 exactly when the row is there at its existence check and at
\* its UPDATE statement, and the row's status is then the requested value.
C10_StatusUpdate == []C10_State /\ [][C10_Step]_vars

\* a PATCH to "Em Andamento" was answered 200 and the row holds that status
C10_Witness ==
    \E p \in Slots :
        /\ Done(p) /\ req[p].op = "updateStatus" /\ Code(p) = 200
        /\ req[p].body["status"] = <<"Em", " ", "Andamento">>
        /\ parseInt(req[p].id) \in DOMAIN store
        /\ store[parseInt(req[p].id)].status = <<"Em", " ", "Andamento">>


OnlyBlankOrAngle(s) == \A k \in 1..Len(s) : s[k] \in {" ", "<", ">"}

C4_Rows ==
    \A i \in DOMAIN store, f \in TextFields :
        \E k \in 1..Len(store[i][f]) : store[i][f][k] # " "

C4_NoWrite ==
    \A p \in Slots :
        (/\ req[p].op \in {"create", "update"}
         /\ req[p].via # "model"
         /\ \E f \in TextFields \cap DOMAIN req[p].body : OnlyBlankOrAngle(req[p].body[f]))
            => /\ req[p].pc \notin {"insert", "update"}
               /\ req[p].rows = -1
               /\ Code(p) \notin {200, 201}

\* C4: the four text fields of every stored row are non-empty after
\* trimming, and a create or update that carries a text field made only of
\* white space and angle brackets issues no statement and does not succeed.
C4_TextFieldsNeverEmpty == C4_Rows /\ C4_NoWrite

\* a PUT whose field holds only an angle bracket found its row and got 400
C4_Witness ==
    \E p \in Slots :
        /\ Done(p) /\ req[p].op = "update" /\ req[p].found /\ Code(p) = 400
        /\ req[p].via = "handler"
        /\ \E f \in TextFields \cap DOMAIN req[p].body : req[p].body[f] = <<"<">>

HasText(b, f) == f \in DOMAIN b /\ ~OnlyBlankOrAngle(b[f])
ValidCreate(b) ==
    /\ \A f \in TextFields : HasText(b, f)
    /\ "status" \in DOMAIN b => b["status"] \in FourStatuses

NoAngle(s) == SelectSeq(s, LAMBDA c : c \notin {"<", ">"})
CreatedBy(p) == req[p].res.data[1]
HandledCreate(p) == Done(p) /\ req[p].op = "create" /\ req[p].via # "model"

\* C5 as claimed: a valid create is answered 201 with a positive id and the
\* stored text fields are the trimmed, upper-cased inputs.
C5_UpperCasedTrimmedInputs ==
    \A p \in Slots :
        (HandledCreate(p) /\ ValidCreate(req[p].body)) =>
            /\ Code(p) = 201
            /\ CreatedBy(p) > 0 /\ CreatedBy(p) \in DOMAIN store
            /\ \A f \in TextFields :
                  store[CreatedBy(p)][f] = ToUpperCase(Trim(req[p].body[f]))

\* C5 amended: a create is answered 201 exactly when it is valid; the id is
\* a positive integer and the stored text fields are the inputs with every
\* angle bracket removed, then trimmed and upper-cased.
C5_CreateRoundTrip ==
    /\ \A p \in Slots :
        HandledCreate(p) =>
            /\ Code(p) = 201 <=> ValidCreate(req[p].body)
            /\ Code(p) = 201 =>
                  /\ CreatedBy(p) > 0 /\ CreatedBy(p) \in DOMAIN store
                  /\ \A f \in TextFields :
                        store[CreatedBy(p)][f] = ToUpperCase(Trim(NoAngle(req[p].body[f])))
    /\ \A q \in Slots :
        (Done(q) /\ req[q].op = "getById" /\ Code(q) = 200) =>
            req[q].res.data = <<store[parseInt(req[q].id)]>>

\* a create whose field carries an angle bracket and a blank was answered 201
C5_Witness ==
    \E p \in Slots :
        /\ HandledCreate(p) /\ Code(p) = 201
        /\ \E f \in TextFields : req[p].body[f] = <<"<", " ", "x">>
        /\ CreatedBy(p) \in DOMAIN store

MissingFields(b) ==
    {f \in TextFields : f \notin DOMAIN b \/ \A k \in 1..Len(b[f]) : b[f][k] = " "}

MessagesAbout(errs, f) ==
    {k \in 1..Len(errs) : errs[k] \in {RouteCreateMsg(f), ModelCreateMsg(f)}}

\* C6: a create with some required fields absent, empty or blank is answered
\* 400 with exactly one message for each missing field and none for the
\* others; with a valid or absent status the list has as many messages as
\* there are missing fields.
C6_EveryMissingFieldListed ==
    \A p \in Slots :
        (HandledCreate(p) /\ MissingFields(req[p].body) # {}) =>
            /\ Code(p) = 400
            /\ req[p].rows = -1
            /\ \A f \in TextFields :
                  Cardinality(MessagesAbout(req[p].res.errors, f))
                      = IF f \in MissingFields(req[p].body) THEN 1 ELSE 0
            /\ ("status" \in DOMAIN req[p].body => req[p].body["status"] \in FourStatuses)
                  => Len(req[p].res.errors) = Cardinality(MissingFields(req[p].body))

\* setor and equipamento are missing and the answer lists two messages
C6_Witness ==
    \E p \in Slots :
        /\ HandledCreate(p) /\ Code(p) = 400
        /\ MissingFields(req[p].body) = {"setor", "equipamento"}
        /\ Len(req[p].res.errors) = 2

\* C7 as claimed: SolicitacaoModel.create called with required fields absent
\* or empty throws an error that names every one of them, and inserts nothing.
C7_DirectCreateNamesEveryField ==
    \A p \in Slots :
        (Done(p) /\ req[p].op = "create" /\ req[p].via = "model"
            /\ MissingFields(req[p].data) # {}) =>
            /\ req[p].rows = -1
            /\ \A f \in MissingFields(req[p].data) :
                  \E k \in 1..Len(req[p].res.error) : req[p].res.error[k] = f

-----------------------------------------------------------------------------
\* the request of slot p is a PUT or PATCH whose UPDATE is about to run
Updating(p) == req[p].pc = "update"

\* the mutable fields the request of slot p supplied
Supplied(p) ==
    IF req[p].op = "updateStatus" THEN {"status"}
    ELSE DOMAIN req[p].body \cap {"nome_pessoa", "setor", "centro_custo", "equipamento", "status"}

\* the step completes a successful update of slot p
UpdatedBy(p) == Updating(p) /\ req'[p].pc = "done" /\ req'[p].res.code = 200

\* C17: a successful update or updateStatus on id X changes, in X, only the
\* supplied mutable fields and updated_at; id, created_at, data_solicitacao,
\* the mutable fields not supplied, every other record and the id sequence
\* stay as they were, whatever extra keys the body carries
C17_Step ==
    \A p \in Slots :
        UpdatedBy(p) =>
            LET X == parseInt(req[p].id)
            IN  /\ DOMAIN store' = DOMAIN store
                /\ nextId' = nextId
                /\ X \in DOMAIN store
                /\ \A i \in DOMAIN store \ {X} : store'[i] = store[i]
                /\ DOMAIN store'[X] = DOMAIN store[X]
                /\ \A k \in DOMAIN store[X] \ (Supplied(p) \cup {"updated_at"}) :
                        store'[X][k] = store[X][k]
                /\ \A k \in Supplied(p) : store'[X][k] = req[p].data[k]

C17_UpdateFrame == [][C17_Step]_vars

\* a PUT carrying extra keys has succeeded and changed its row while another
\* row is stored
C17_Witness ==
    \E p \in Slots :
        /\ Done(p) /\ req[p].op = "update" /\ Code(p) = 200
        /\ "created_at" \in DOMAIN req[p].body
        /\ Cardinality(DOMAIN store) >= 2
        /\ store[parseInt(req[p].id)]["nome_pessoa"] = <<"X">>
        /\ store[parseInt(req[p].id)]["updated_at"] > 0

\* C18: in every state updated_at >= created_at for every record; no step
\* changes a record's created_at, and no step moves updated_at backwards
C18_Order == \A i \in DOMAIN store : store[i]["updated_at"] >= store[i]["created_at"]

C18_Step ==
    \A i \in DOMAIN store \cap DOMAIN store' :
        /\ store'[i]["created_at"] = store[i]["created_at"]
        /\ store'[i]["updated_at"] >= store[i]["updated_at"]

C18_TimestampsMonotone == []C18_Order /\ [][C18_Step]_vars
-----------------------------------------------------------------------------
HasAngle(t) == \E k \in 1..Len(t) : t[k] \in {"<", ">"}

\* "NOTEBOOK DELL SCRIPT"
NotebookDellStored ==
    <<"N", "O", "T", "E", "B", "O", "O", "K", " ", "D", "E", "L", "L", " ",
      "S", "C", "R", "I", "P", "T">>

\* C15: no text field stored through the create and update handlers holds
\* '<' or '>'; a create with equipamento "Notebook Dell <script>" answers 201
\* and its row holds "NOTEBOOK DELL SCRIPT", which a later getById returns
C15_NoAngleBrackets ==
    /\ \A i \in DOMAIN store : \A f \in TextFields : ~HasAngle(store[i][f])
    /\ \A p \in Slots :
        (HandledCreate(p) /\ ValueOf(req[p].body, "equipamento") = NotebookDell
            /\ req[p].body = With(Base, "equipamento", NotebookDell)) =>
            /\ Code(p) = 201
            /\ store[CreatedBy(p)]["equipamento"] = NotebookDellStored
    /\ \A q \in Slots :
        (Done(q) /\ req[q].op = "getById" /\ Code(q) = 200) =>
            \A f \in TextFields : ~HasAngle(req[q].res.data[1][f])

\* a getById has returned the row created from "Notebook Dell <script>"
C15_Witness ==
    \E q \in Slots :
        /\ Done(q) /\ req[q].op = "getById" /\ Code(q) = 200
        /\ req[q].res.data[1]["equipamento"] = NotebookDellStored

\* C16: a PUT on an existing record whose body has none of the five fields
\* answers 400 and issues no statement
C16_NoFieldsAnswers400 ==
    \A p \in Slots :
        (Done(p) /\ req[p].op = "update" /\ req[p].found /\ Supplied(p) = {}) =>
            /\ Code(p) = 400
            /\ req[p].rows = -1
-----------------------------------------------------------------------------
\* slot p has answered a listing
Listed(p) == Done(p) /\ req[p].op = "getAll"
Pagination(p) == req[p].res.data[1].pagination
Items(p) == req[p].res.data[1].solicitacoes

\* the query value under key k is a decimal integer, with or without a sign
IsInteger(q, k) ==
    /\ k \in DOMAIN q
    /\ Unsigned(q[k]) # <<>>
    /\ \A i \in 1..Len(Unsigned(q[k])) : Unsigned(q[k])[i] \in Digits

\* the number it denotes
IntegerOf(q, k) ==
    IF Head(q[k]) = "-" THEN 0 - DigitsValue(Unsigned(q[k])) ELSE DigitsValue(Unsigned(q[k]))

\* the records the filters of slot p match
Matching(p) == Cardinality({i \in DOMAIN store : conditions(store[i], req[p].filters)})

\* n is the ceiling of t / l
IsCeiling(n, t, l) == n * l >= t /\ (n - 1) * l < t

\* C11: with page >= 1 and limit in 1..100 requested and T matching records,
\* the listing uses offset (page-1)*limit and reports total_pages = ceil(T/limit),
\* has_previous = (page > 1), has_next = (page < total_pages), and returns
\* min(limit, max(0, T - offset)) items; 25 records, limit 10, page 1 give
\* 10 items, 3 pages, has_next and no has_previous
C11_Pagination ==
    \A p \in Slots :
        /\ (/\ Listed(p)
            /\ IsInteger(req[p].query, "page") /\ IsInteger(req[p].query, "limit")
            /\ IntegerOf(req[p].query, "page") >= 1
            /\ IntegerOf(req[p].query, "limit") \in 1..100) =>
               LET P == IntegerOf(req[p].query, "page")
                   L == IntegerOf(req[p].query, "limit")
                   T == Matching(p)
                   pg == Pagination(p)
               IN  /\ Code(p) = 200
                   /\ req[p].offset = (P - 1) * L
                   /\ req[p].limit = L
                   /\ pg.current_page = P /\ pg.items_per_page = L /\ pg.total_items = T
                   /\ IsCeiling(pg.total_pages, T, L)
                   /\ pg.has_previous = (P > 1)
                   /\ pg.has_next = (P < pg.total_pages)
                   /\ Len(Items(p)) = Min(L, Max(0, T - (P - 1) * L))
        /\ (/\ Listed(p)
            /\ Cardinality(DOMAIN store) = 25
            /\ req[p].query = [page |-> <<"1">>, limit |-> <<"1", "0">>]) =>
               /\ Len(Items(p)) = 10
               /\ Pagination(p).total_pages = 3
               /\ Pagination(p).has_next = TRUE
               /\ Pagination(p).has_previous = FALSE

\* the listing of 25 records with limit 10 and page 1 has been answered, and
\* so has one for page 3, the last page with its 5 records
C11_Witness ==
    \E p \in Slots :
        /\ Listed(p) /\ Cardinality(DOMAIN store) = 25
        /\ req[p].query = [page |-> <<"1">>, limit |-> <<"1", "0">>]
        /\ Len(Items(p)) = 10

\* C12: a listing whose page (requested, at least 1) lies beyond the last
\* page, also when nothing matches and there are 0 pages, answers 200 with no
\* items, total_items the number of matching records, has_next false and
\* current_page the requested page clamped to at least 1
C12_BeyondLastPage ==
    \A p \in Slots :
        (/\ Listed(p)
         /\ IsInteger(req[p].query, "page")
         /\ \E n \in 0..MaxRows :
               /\ IsCeiling(n, Matching(p), req[p].limit)
               /\ Max(1, IntegerOf(req[p].query, "page")) > n) =>
            /\ Code(p) = 200
            /\ Items(p) = <<>>
            /\ Pagination(p).total_items = Matching(p)
            /\ Pagination(p).has_next = FALSE
            /\ Pagination(p).current_page = Max(1, IntegerOf(req[p].query, "page"))

\* page 4 of three pages has been listed, and a page of an empty result
C12_Witness ==
    \E p \in Slots :
        /\ Listed(p) /\ Matching(p) = 25
        /\ ValueOf(req[p].query, "page") = <<"4">> /\ ValueOf(req[p].query, "limit") = <<"1", "0">>
        /\ Items(p) = <<>> /\ Pagination(p).total_pages = 3

\* the query value under key k is there and begins, after an optional sign,
\* with a digit
StartsWithDigit(q, k) ==
    k \in DOMAIN q /\ Unsigned(q[k]) # <<>> /\ Head(Unsigned(q[k])) \in Digits

\* C13: whatever the page and limit parameters are (absent, non-numeric,
\* zero, negative, above 100) the handler uses a page >= 1, 1 by default, and
\* a page size in 1..100, 10 by default, so the offset it passes is never
\* negative and the limit never 0 or above 100
C13_PageAndLimitClamped ==
    \A p \in Slots :
        req[p].op = "getAll" =>
            LET q == req[p].query
            IN  /\ req[p].page >= 1
                /\ req[p].limit \in 1..100
                /\ req[p].offset >= 0
                /\ ~StartsWithDigit(q, "page") => req[p].page = 1
                /\ ~StartsWithDigit(q, "limit") => req[p].limit = 10
                /\ Listed(p) =>
                      /\ Pagination(p).current_page >= 1
                      /\ Pagination(p).items_per_page \in 1..100
                      /\ Len(Items(p)) <= 100

\* listings with limit 101 and page -1, and with neither, have been prepared
C13_Witness ==
    \E p \in Slots :
        /\ Listed(p)
        /\ ValueOf(req[p].query, "limit") = <<"1", "0", "1">>
        /\ ValueOf(req[p].query, "page") = <<"-", "1">>
        /\ req[p].limit = 100 /\ req[p].page = 1 /\ Len(Items(p)) = 25
-----------------------------------------------------------------------------
Stats(p) == req[p].res.data[1].stats

RECURSIVE SumOfPercentages(_)
SumOfPercentages(st) ==
    IF st = <<>> THEN 0 ELSE st[1].percentual + SumOfPercentages(Tail(st))

Abs(n) == IF n < 0 THEN 0 - n ELSE n

\* C14: the statistics hold one entry per distinct stored status, with
\* quantidade the number of records of that status and total the number of
\* records; each percentual is quantidade/total*100 rounded, at most one half
\* off, so with records stored the percentages sum to 100 up to one half per
\* entry; with no record no entry has a percentage other than 0
C14_Statistics ==
    \A p \in Slots :
        (Done(p) /\ req[p].op = "getStats") =>
            LET st == Stats(p)
                total == req[p].res.data[1].total
            IN  /\ Code(p) = 200
                /\ {st[k].status : k \in DOMAIN st} = {store[i]["status"] : i \in DOMAIN store}
                /\ \A j, k \in DOMAIN st : j # k => st[j].status # st[k].status
                /\ \A k \in DOMAIN st :
                      st[k].quantidade
                        = Cardinality({i \in DOMAIN store : store[i]["status"] = st[k].status})
                /\ total = Cardinality(DOMAIN store)
                /\ total > 0 =>
                      /\ \A k \in DOMAIN st :
                            2 * Abs(100 * st[k].quantidade - st[k].percentual * total) <= total
                      /\ 2 * Abs(SumOfPercentages(st) - 100) <= Len(st)
                /\ total = 0 => \A k \in DOMAIN st : st[k].percentual = 0

\* statistics of three statuses with one record each: 33 + 33 + 33
C14_Witness ==
    \E p \in Slots :
        /\ Done(p) /\ req[p].op = "getStats"
        /\ Len(Stats(p)) = 3
        /\ req[p].res.data[1].total = 3
        /\ SumOfPercentages(Stats(p)) = 99
-----------------------------------------------------------------------------
MutatingOps == {"create", "update", "updateStatus", "delete", "createTable"}

\* the request of slot p got past csrfProtection
PastCsrf(p) == req[p].op \in MutatingOps /\ req[p].via # "csrf"

\* C19 as stated: a mutating call gets past the check only when the body
\* token or the header it sent equals the token of its session
C19_OnlyWithSessionToken ==
    \A p \in Slots :
        PastCsrf(p) =>
            /\ req[p].csrf.bound # <<>>
            /\ req[p].csrf.token = req[p].csrf.bound \/ req[p].csrf.header = req[p].csrf.bound

\* the token csrfProtection compares: the body token with the white space
\* around it removed or, when that is empty, the header
Compared(p) ==
    IF Trim(req[p].csrf.token) # <<>> THEN Trim(req[p].csrf.token) ELSE req[p].csrf.header

\* C19, amended: a mutating call reaches its handler or issues a statement
\* only when its session has a token and the token it presents, the body
\* token after trimming or else the header, equals it; the session's token,
\* once bound, stays the same
C19_State ==
    \A p \in Slots :
        /\ PastCsrf(p) =>
              /\ req[p].csrf.bound # <<>>
              /\ Compared(p) = req[p].csrf.bound
              /\ session[req[p].csrf.sid] = req[p].csrf.bound
        /\ (req[p].op \in MutatingOps /\ req[p].via = "csrf") =>
              /\ Done(p) /\ Code(p) \in {403, 500}
              /\ req[p].rows = -1
              /\ Code(p) = 403 <=> (Compared(p) = <<>> \/ Len(Compared(p)) = Len(req[p].csrf.bound))

C19_Step ==
    /\ \A p \in Slots :
          (req[p].pc = "idle" /\ req'[p].op \in MutatingOps /\ req'[p].via = "csrf") =>
              UNCHANGED <<store, nextId>>
    /\ \A sid \in DOMAIN session : session[sid] # <<>> => session'[sid] = session[sid]

C19_CsrfGate == []C19_State /\ [][C19_Step]_vars

\* a delete whose body token is its session's token with white space around
\* it has removed row 1
C19_Witness ==
    \E p \in Slots :
        /\ Done(p) /\ req[p].op = "delete" /\ Code(p) = 200
        /\ req[p].csrf.token = <<" ", "t", " ">>
        /\ req[p].csrf.bound = <<"t">>
        /\ 1 \notin DOMAIN store
-----------------------------------------------------------------------------
\* C20: a response sent after a store round trip failed has the status of
\* the class of the failure: 503 for connection refused or host not found,
\* 409 for a unique violation, 500 for anything else
C20_StatusByFailureClass ==
    \A p \in Slots :
        (Done(p) /\ req[p].fault # "") =>
            Code(p) = (IF req[p].fault \in {"ECONNREFUSED", "ENOTFOUND"} THEN 503
                       ELSE IF req[p].fault = "23505" THEN 409
                       ELSE 500)
-----------------------------------------------------------------------------
\* the id is a positive integer written in decimal digits
PositiveIntegerId(i) == i # <<>> /\ AllDigits(i) /\ DigitsValue(i) > 0

\* C21: GET /solicitacoes/:id answers 400 for every id that is not a positive
\* integer, 404 for a positive integer with no stored record, and 200 with
\* exactly the stored record otherwise
C21_OnlyPositiveIntegerIds ==
    \A p \in Slots :
        (Done(p) /\ req[p].op = "getById") =>
            IF ~PositiveIntegerId(req[p].id) THEN Code(p) = 400
            ELSE IF DigitsValue(req[p].id) \notin DOMAIN store THEN Code(p) = 404
            ELSE /\ Code(p) = 200
                 /\ req[p].res.data = <<store[DigitsValue(req[p].id)]>>
-----------------------------------------------------------------------------
\* the createTable call of slot p has been answered
CreatedTable(p) == Done(p) /\ req[p].op = "createTable"

C22_State ==
    \A p \in Slots :
        CreatedTable(p) =>
            /\ Code(p) = 200 <=> req[p].fault = ""
            /\ req[p].fault # "" => req[p].fault \in Unreachable
            /\ Code(p) = 200 => schema = Complete

C22_Step ==
    /\ store' = store
    /\ schema.table => schema'.table
    /\ schema.indexes \subseteq schema'.indexes
    /\ schema = Complete => schema' = schema

\* C22: createTable, called any number of times on any store, leaves every
\* record as it is, never removes the table or an index, changes nothing once
\* the table and its three indexes are there, and answers 200, with the
\* table and the three indexes present, unless the store cannot be reached
C22_CreateTableIdempotent == []C22_State /\ [][C22_Step]_vars

\* a call that found the table without indexes and a call that found
\* everything in place were both answered 200, and the two stored records
\* are still there
C22_Witness ==
    /\ CreatedTable("a") /\ Code("a") = 200 /\ req["a"].was = Complete
    /\ CreatedTable("b") /\ Code("b") = 200
    /\ req["b"].was = [table |-> TRUE, indexes |-> {}]
    /\ DOMAIN store = {1, 2}
-----------------------------------------------------------------------------
\* OneColumn(o): o is a {column, direction} pair a closed allow-list can hold,
\* the direction being optional

\* C23: a listing whose orderBy is no {column, direction} pair of the
\* allow-list is rejected with a validation error (400) before a statement
\* is composed: it never awaits a round trip to the store
C23_OrderByAllowList ==
    \A p \in Slots :
        (req[p].op = "getAll" /\ Has(req[p].query, "orderBy")
            /\ ~OneColumn(req[p].query["orderBy"])) =>
                /\ req[p].pc \in {"idle", "done"}
                /\ Done(p) => Code(p) = 400
-----------------------------------------------------------------------------
\* part occurs in text, letter case aside
Substring(text, part) ==
    \E i \in 1..(Len(text) + 1) :
        /\ i + Len(part) - 1 <= Len(text)
        /\ SubSeq(ToUpperCase(text), i, i + Len(part) - 1) = ToUpperCase(part)

\* a filter that is absent or empty
NoFilter(f, k) == ~Has(f, k) \/ f[k] = <<>>

\* the rows the claim has getAll and count select
MatchesSubstring(row, f) ==
    /\ NoFilter(f, "status") \/ row["status"] = f["status"]
    /\ NoFilter(f, "setor") \/ row["setor"] = f["setor"]
    /\ \/ NoFilter(f, "search")
       \/ Substring(row["nome_pessoa"], f["search"])
       \/ Substring(row["equipamento"], f["search"])

\* the same with search read as the pattern %search% of ILIKE
MatchesPattern(row, f) ==
    /\ NoFilter(f, "status") \/ row["status"] = f["status"]
    /\ NoFilter(f, "setor") \/ row["setor"] = f["setor"]
    /\ \/ NoFilter(f, "search")
       \/ ILike(row["nome_pessoa"], f["search"])
       \/ ILike(row["equipamento"], f["search"])

Plain(s) == \A i \in 1..Len(s) : s[i] \notin {"%", "_", "\\"}

GotAll(p) == Done(p) /\ req[p].op = "getAll" /\ req[p].via = "model"
GotCount(p) == Done(p) /\ req[p].op = "count" /\ req[p].via = "model"
IdsOf(items) == {items[k]["id"] : k \in 1..Len(items)}

\* C24 as stated: count(filters) is the number of rows of getAll(filters)
\* without a limit, and both select the rows whose status and setor equal the
\* filter and whose nome_pessoa or equipamento contains search, letter case
\* aside; an absent or empty filter selects every row
C24_CountMatchesGetAll ==
    \A g, c \in Slots :
        /\ GotAll(g) =>
              /\ IdsOf(req[g].items) = {i \in DOMAIN store : MatchesSubstring(store[i], req[g].filters)}
              /\ Len(req[g].items) = Cardinality(IdsOf(req[g].items))
        /\ GotCount(c) =>
              req[c].total = Cardinality({i \in DOMAIN store : MatchesSubstring(store[i], req[c].filters)})
        /\ (GotAll(g) /\ GotCount(c) /\ req[g].filters = req[c].filters) =>
              req[c].total = Len(req[g].items)

\* C24 amended: the same, with search matched as the ILIKE pattern %search%,
\* in which % and _ are wildcards; for a search without % _ and backslash
\* that is the containment of search, letter case aside
C24_CountMatchesGetAllPattern ==
    \A g, c \in Slots :
        /\ GotAll(g) =>
              /\ IdsOf(req[g].items) = {i \in DOMAIN store : MatchesPattern(store[i], req[g].filters)}
              /\ Len(req[g].items) = Cardinality(IdsOf(req[g].items))
              /\ (Has(req[g].filters, "search") /\ Plain(req[g].filters["search"])) =>
                    IdsOf(req[g].items) =
                        {i \in DOMAIN store : MatchesSubstring(store[i], req[g].filters)}
        /\ GotCount(c) =>
              req[c].total = Cardinality({i \in DOMAIN store : MatchesPattern(store[i], req[c].filters)})
        /\ (GotAll(g) /\ GotCount(c) /\ req[g].filters = req[c].filters) =>
              req[c].total = Len(req[g].items)

\* both were called with search 'a' and status 'Comprado' on a table of two
\* rows, one of which matches
C24_Witness ==
    /\ GotAll("getAll") /\ GotCount("count")
    /\ req["getAll"].filters = req["count"].filters
    /\ req["count"].filters = [status |-> Comprado, search |-> <<"a">>]
    /\ Cardinality(DOMAIN store) = 2
    /\ req["count"].total = 1
-----------------------------------------------------------------------------
\* statement s is in the log of the call
Issued(k, s) == \E i \in 1..Len(k.log) : k.log[i] = s

\* a transaction call that acquired a connection has settled
TransactionOver(c) ==
    call[c].op = "transaction" /\ call[c].pc = "done" /\ call[c].error # "connect"

\* the promise the callback returned was fulfilled
CallbackCompleted(k) == Issued(k, "callback") /\ k.caught # "callback"

\* C25: transaction issues BEGIN, runs the callback, issues COMMIT exactly
\* when the callback completed without error, otherwise issues ROLLBACK and
\* rejects with the error that caused the failure; the connection is
\* released exactly once on every path
C25_CommitOrRollback ==
    \A c \in Callers :
        TransactionOver(c) =>
            LET k == call[c]
            IN  /\ k.log[1] = "BEGIN"
                /\ Issued(k, "COMMIT") <=> CallbackCompleted(k)
                /\ k.caught # "" =>
                      /\ Issued(k, "ROLLBACK")
                      /\ k.result = "rejected"
                      /\ k.error = k.caught
                /\ k.caught = "" => k.result = "resolved"
                /\ k.releases = 1 /\ k.holds = 0
-----------------------------------------------------------------------------
\* the token a request sent: csrf_token of its body or else the header
Presented(p) == IF req[p].csrf.token # <<>> THEN req[p].csrf.token ELSE req[p].csrf.header

\* C26: a mutating request whose token is missing or differs from its
\* session's token, in content or in length, is answered 403 by
\* csrfProtection, and the rest of its route is not entered
C26_Answers403 ==
    \A p \in Slots :
        (req[p].op \in MutatingOps /\ req[p].csrf.sid # ""
            /\ Presented(p) # req[p].csrf.bound) =>
                /\ req[p].via = "csrf"
                /\ Done(p) /\ Code(p) = 403
                /\ req[p].res = ForbiddenResponse
-----------------------------------------------------------------------------
\* C27: after SIGTERM or SIGINT the process exits with code 0 only once the
\* HTTP server has finished closing, so that no request in flight is cut
\* off, and with code 1 only when the forced-shutdown timer fired before the
\* server had closed
C27_GracefulShutdown ==
    /\ proc.exit = 0 => proc.cut = 0
    /\ proc.exit = 1 => proc.by = "setTimeout" /\ ~proc.closed
    /\ proc.exit # -1 => proc.signal # ""
-----------------------------------------------------------------------------
\* connections checked out by the calls that have not returned yet
RECURSIVE HeldBy(_)
HeldBy(S) ==
    IF S = {} THEN 0
    ELSE LET c == CHOOSE x \in S : TRUE
         IN  (IF call[c].pc = "done" THEN 0 ELSE call[c].holds) + HeldBy(S \ {c})

\* C28: testConnection releases every connection it acquired before it
\* returns true or false: a call that has returned holds none, the
\* connections checked out of the pool are those of the calls in progress,
\* and the pool is never exhausted by calls that returned
C28_TestConnectionReleases ==
    /\ \A c \in Callers :
          (call[c].op = "testConnection" /\ call[c].pc = "done") => call[c].holds = 0
    /\ pool.out = HeldBy(Callers)
-----------------------------------------------------------------------------
\* several calls were issued and every one of them has rendered its response
AllRendered ==
    /\ Len(client.calls) >= 2
    /\ \A k \in 1..Len(client.calls) : client.calls[k].state = "rendered"

LastCall == client.calls[Len(client.calls)]

\* C29: once every one of several loadSolicitacoes calls has completed, in
\* whatever order the responses arrived, the table shown and the globals
\* currentPage and currentFilters are those of the call issued last
C29_LastCallWins ==
    AllRendered =>
        /\ client.shown.view = "table"
        /\ client.shown.page = LastCall.page
        /\ client.shown.filters = LastCall.filters
        /\ client.currentPage = LastCall.page
        /\ client.currentFilters = LastCall.filters
-----------------------------------------------------------------------------
\* C30: in every answer of GET /solicitacoes, also when records are created
\* or deleted while it is served, the items and the pagination describe one
\* store state: the number of items is min(items_per_page, max(0,
\* total_items - offset)) and is at most total_items
C30_ItemsMatchTotal ==
    \A p \in Slots :
        (Listed(p) /\ Code(p) = 200) =>
            LET pg == Pagination(p)
                offset == (pg.current_page - 1) * pg.items_per_page
            IN  /\ Len(Items(p)) = Min(pg.items_per_page, Max(0, pg.total_items - offset))
                /\ Len(Items(p)) <= pg.total_items
=============================================================================
